---- MODULE Spec2Model ----
(***************************************************************************)
(* Replay scheduler of session-recorder: SessionReplayer (the facade in    *)
(* src/src/storage/local-storage.ts) driving ReplayController              *)
(* (src/src/core/replayer/ReplayController.ts) and the browser's timer     *)
(* table (window.setTimeout / clearTimeout).                               *)
(*                                                                         *)
(* Time is counted in units of 1/Scale ms, so that every delay             *)
(* (nextTime - currentTime) / speed is an exact integer of the model for   *)
(* every speed in Speeds.  A timer fires exactly when its delay has        *)
(* elapsed (an ideal timer); the clock `now` is the time since the last    *)
(* play() that started a run.                                              *)
(***************************************************************************)
EXTENDS Integers, Sequences, FiniteSets, TLC

\* ---------------------------------------------------------------- bounds
MaxEvents == 3      \* longest generated session
MaxOffset == 2      \* largest timestamp offset (ms) of a generated event
BaseTime == 10      \* epoch ms of a session's startTime
MaxLog == 2         \* longest event sequence of a recorded session
MaxClock == 1       \* last instant of the recorder's clock

\* unit of the recorder's clock (ms): the default of options.throttleMouseMove
TimeUnit == 50

\* the speed option and the arguments of setSpeed
Speeds == {1, 2}

RECURSIVE Product(_)
Product(S) == IF S = {} THEN 1 ELSE LET x == CHOOSE y \in S : TRUE
                                    IN x * Product(S \ {x})

\* ticks per millisecond: a common multiple of all speeds
Scale == Product(Speeds)
\* the arguments of seekTo (ms): before, within and after the recorded span
SeekTimes == (-1)..(MaxOffset + 1)

\* every value a caller can pass as the speed option or to setSpeed that the
\* division of calculateDelay tells apart: negative, zero and the positive
\* speeds
SpeedInputs == {0 - 1, 0} \cup Speeds
\* the result of a division by 0 (Infinity or NaN); no quotient by a speed
\* of SpeedInputs is odd and negative
NotFinite == 0 - 1

\* session = null
Null == [none |-> TRUE]
\* nextTimer = null (setTimeout ids are positive)
NoTimer == 0

SortedOffsets(n) ==
    {s \in [1..n -> 0..MaxOffset] : \A i \in 1..(n - 1) : s[i] <= s[i + 1]}

\* RecordingSession reduced to what replay reads: startTime and the events'
\* timestamps (getTime() values, ms), in recorded order.
MakeSession(offs) ==
    [startTime |-> BaseTime,
     events |-> [i \in 1..Len(offs) |-> BaseTime + offs[i]]]

\* events at t=0, 500 and 1500 ms
ScenarioSession == MakeSession(<<0, 500, 1500>>)

Sessions ==
    {MakeSession(s) : s \in UNION {SortedOffsets(n) : n \in 0..MaxEvents}}
        \cup {ScenarioSession}

VARIABLES
    artifact,       \* the recorded session the host page holds and loads
    session,        \* SessionReplayer.session: Null or a session
    loop,           \* options.loop
    playing,        \* ReplayController.playing
    currentIndex,   \* ReplayController.currentIndex (0-based)
    speed,          \* ReplayController.speed
    nextTimer,      \* ReplayController.nextTimer: NoTimer or a timer id
    timers,         \* the browser's pending timeouts: {[id, delay, due]}
    now,            \* clock, in ticks since the last play() that started a run
    log,            \* history: onEvent / onComplete invocations since the last
                    \* play() that started a run, stop() or loadSession() call
    run,            \* history: how the current run started; NoRun once interrupted
    lastOp          \* history: the last call or timer firing

\* options of the replayer that no call changes
VARIABLES
    skipInactivity, \* options.skipInactivity
    onEvent         \* options.onEvent: the call the host's callback makes on
                    \* the replayer at each delivery ("none", "pause", "stop")

\* the replay surface: which content SessionReplayer / SessionPlayer show
VARIABLES
    viaPlayer,      \* the host drives a SessionPlayer (TRUE) or a SessionReplayer
    contentOptions, \* SessionReplayer.options: originalUrl, contentHtml
    iframeManager,  \* IframeManager: originalUrl, contentHtml
    iframe,         \* the target iframe: its src attribute and the document shown
    hasSession,     \* SessionReplayer.session is set (this.session !== null)
    lastLoad        \* history: the arguments of the last loadSession call

\* the recorder
VARIABLES
    recOptions,     \* SessionRecorder.options
    clock,          \* the recorder's clock (Date), in units of TimeUnit ms
    isRecording,    \* SessionRecorder.isRecording
    currentSession, \* SessionRecorder.currentSession: Null or a session
    listeners,      \* sets of EventHandler listeners installed on the document
    eventHandlers,  \* EventHandler.eventHandlers holds a set of listeners
    saveIntervalId, \* SessionRecorder.saveIntervalId: NoTimer or a handle
    sessionTimeout, \* SessionRecorder.sessionTimeout: NoTimer or a handle
    pageTimers,     \* the window's pending interval and timeout of the recorder
    throttleTimers, \* EventCollector.throttleTimers: {[key, due]}
    unloadHandler,  \* handleBeforeUnload is a beforeunload listener of window
    win,            \* history: per throttled kind, whether a signal that is
                    \* not excluded came in the current throttle window,
                    \* and the events recorded in it
    recOp           \* history: the last recorder step, and the signal it dropped

\* the storage adapter
VARIABLES
    storageItem,    \* localStorage[storageKey]: absent, or the JSON text
    pending,        \* calls of the adapter that await getAllSessions(), in
                    \* the order their continuations run
    storeOp         \* history: the adapter call that settled last

\* the sandbox of a replayer made with options.targetIframe
VARIABLES
    simulatorDoc,   \* the document this.eventSimulator dispatches into:
                    \* "host" or "sandbox"
    iframeLoad      \* the load prepareIframe started: "none", "loading",
                    \* "loaded" or "failed"

\* the recorder's page capture (options.captureHtml)
VARIABLES
    started,        \* the number of sessions initializeSession has made
    capturing,      \* the captures in flight, each named by the number of the
                    \* session startRecording() made before starting it
    attached        \* history: the pageHtml writes, [to, of]: the number of
                    \* the session written to, and of the capture's session

\* the capability allow-list of the iframe
VARIABLES
    sandboxConfig,  \* SessionReplayer.options after the constructor:
                    \* iframeSandbox, sandboxOptions, allowScripts
    frameAttrs,     \* the iframe's attributes: src, and sandbox (absent, or
                    \* its tokens)
    contentLoad     \* history: the content prepareIframe loaded last and the
                    \* sandbox attribute the iframe had when it did

\* the replay of one event into the sandbox document
VARIABLES
    lastHoveredElement, \* EventSimulator.lastHoveredElement, or NoMatch
    replayed,       \* history: the events processNextEvent has processed
    lastEvent,      \* history: the event processNextEvent processed last
    found,          \* history: what findElementAtCoordinates returned for
                    \* it, and whether an error came out of the lookup
    sent            \* history: the DOM events dispatched for it, in order

\* the timeline of SessionPlayer
VARIABLES
    playerSession,  \* SessionPlayer.session: Null or what loadSession reads of
                    \* the session
    duration,       \* SessionPlayer.duration (ms)
    P_currentTime   \* SessionPlayer.currentTime, the time handleTimelineSeek
                    \* hands to seekTo, in 1/BarWidth ms

\* the page snapshot
VARIABLES
    snapOptions,    \* HtmlCaptureHelper.options
    htmlClone,      \* the clone of the document capturePageHtml works on
    stage,          \* where capturePageHtml is: "idle", awaiting the
                    \* "stylesheets", awaiting the "scripts", or "done"
    inflight,       \* the nodes whose fetch has not settled
    fetched,        \* history: per node, how its fetch settled
    settled         \* history: the nodes whose fetch settled, in the order
                    \* they did

replayOptionVars == <<skipInactivity, onEvent>>

replayVars == <<artifact, session, loop, playing, currentIndex, speed, nextTimer,
                timers, now, log, run, lastOp, replayOptionVars>>

contentVars == <<viaPlayer, contentOptions, iframeManager, iframe, hasSession,
                 lastLoad>>

recorderVars == <<recOptions, clock, isRecording, currentSession, listeners,
                  eventHandlers, saveIntervalId, sessionTimeout, pageTimers,
                  throttleTimers, unloadHandler, win, recOp>>

storageVars == <<storageItem, pending, storeOp>>

snapshotVars == <<snapOptions, htmlClone, stage, inflight, fetched, settled>>

sandboxVars == <<simulatorDoc, iframeLoad>>

captureVars == <<started, capturing, attached>>

timelineVars == <<playerSession, duration, P_currentTime>>

allowListVars == <<sandboxConfig, frameAttrs, contentLoad>>

resolveVars == <<lastHoveredElement, replayed, lastEvent, found, sent>>

\* the variables of the parts that follow the sandbox
extraVars == <<captureVars, timelineVars, allowListVars, resolveVars>>

\* the variables of the parts up to the sandbox
coreVars == <<replayVars, contentVars, recorderVars, storageVars, snapshotVars,
              sandboxVars>>

\* what the page capture leaves alone besides the recorder
outsideCapture == <<replayVars, contentVars, storageVars, snapshotVars,
                    sandboxVars, timelineVars, allowListVars, resolveVars>>

\* what the player's timeline leaves alone
outsideTimeline == <<coreVars, captureVars, allowListVars, resolveVars>>

\* what a load into the iframe leaves alone besides its attributes
outsideAllowList == <<coreVars, captureVars, timelineVars, resolveVars>>

\* what the replay of an event into the document leaves alone
outsideResolve == <<coreVars, captureVars, timelineVars, allowListVars>>

\* what the actions of the replay scheduler leave alone
otherVars == <<replayOptionVars, contentVars, recorderVars, storageVars,
               snapshotVars, sandboxVars,
    extraVars>>

\* what the actions of the replay surface leave alone
outsideContent == <<replayVars, recorderVars, storageVars, snapshotVars,
                    sandboxVars,
    extraVars>>

\* what the actions of the recorder leave alone
outsideRecorder == <<replayVars, contentVars, storageVars, snapshotVars,
                     sandboxVars,
    extraVars>>

\* what the actions of the storage adapter leave alone
outsideStorage == <<replayVars, contentVars, recorderVars, snapshotVars,
                    sandboxVars,
    extraVars>>

\* what the actions of the snapshot leave alone
outsideSnapshot == <<replayVars, contentVars, recorderVars, storageVars,
                     sandboxVars,
    extraVars>>

\* what a load of the sandbox leaves alone besides the replay scheduler
outsideSandbox == <<replayOptionVars, contentVars, recorderVars, storageVars,
                    snapshotVars,
    extraVars>>

vars == <<replayVars, contentVars, recorderVars, storageVars, snapshotVars,
          sandboxVars,
          extraVars>>

\* the mutable state the operations thread through
State ==
    [playing |-> playing, currentIndex |-> currentIndex, speed |-> speed,
     nextTimer |-> nextTimer, timers |-> timers, now |-> now, log |-> log]

Set(st) ==
    /\ playing' = st.playing
    /\ currentIndex' = st.currentIndex
    /\ speed' = st.speed
    /\ nextTimer' = st.nextTimer
    /\ timers' = st.timers
    /\ now' = st.now
    /\ log' = st.log

NumEvents == IF session = Null THEN 0 ELSE Len(session.events)

\* ------------------------------------------------------ ReplayController
isPlaying(st) == st.playing

getCurrentIndex(st) == st.currentIndex

getSpeed(st) == st.speed

\* mutant: the handle is dropped without clearTimeout
cancelNextTimer_NoClear(st) == [st EXCEPT !.nextTimer = NoTimer]

\* clearTimeout(nextTimer) when the handle is set; a handle whose timer has
\* already fired is cleared without effect.
cancelNextTimer(st) ==
    IF st.nextTimer # NoTimer
    THEN [st EXCEPT !.timers = {t \in @ : t.id # st.nextTimer},
                    !.nextTimer = NoTimer]
    ELSE st

Ctl_play(st) == [st EXCEPT !.playing = TRUE]

\* mutant: pause() forgets cancelNextTimer()
Ctl_pause_NoCancel(st) == [st EXCEPT !.playing = FALSE]

\* mutant: pause() rewinds the cursor as stop() does
Ctl_pause_Rewind(st) ==
    cancelNextTimer([st EXCEPT !.playing = FALSE, !.currentIndex = 0])

Ctl_pause(st) == cancelNextTimer([st EXCEPT !.playing = FALSE])

\* mutant: stop() forgets currentIndex = 0
Ctl_stop_NoRewind(st) == cancelNextTimer([st EXCEPT !.playing = FALSE])

Ctl_stop(st) ==
    cancelNextTimer([st EXCEPT !.playing = FALSE, !.currentIndex = 0])

\* mutant: the callback is invoked but playing stays true
Ctl_complete_StillPlaying(st) ==
    [st EXCEPT !.log = Append(@, [kind |-> "complete", idx |-> st.currentIndex,
                                  at |-> st.now, spd |-> st.speed])]

\* playing = false, then the onComplete callback
Ctl_complete(st) ==
    [st EXCEPT !.playing = FALSE,
               !.log = Append(@, [kind |-> "complete", idx |-> st.currentIndex,
                                  at |-> st.now, spd |-> st.speed])]

setCurrentIndex(st, index) == [st EXCEPT !.currentIndex = index]

incrementIndex(st) == [st EXCEPT !.currentIndex = @ + 1]

Ctl_setSpeed(st, s) == [st EXCEPT !.speed = s]

reset(st) == Ctl_stop(st)

\* The id window.setTimeout returns.  A browser never returns an id twice; ids
\* are only ever compared with the ids of pending timers (clearTimeout), so
\* the model returns the least id that neither names a pending timer nor is
\* still held in nextTimer: such an id behaves as a never-used one.
freshTimerId(st) ==
    CHOOSE i \in 1..(Cardinality(st.timers) + 2) :
        /\ i # st.nextTimer
        /\ \A t \in st.timers : t.id # i
        /\ \A j \in 1..(i - 1) : j = st.nextTimer \/ \E t \in st.timers : t.id = j

\* window.setTimeout(callback, delayMs): the callback is always the closure
\* of processNextEvent's scheduling branch (timerCallback)
\* A delay that is negative or not a finite number (NotFinite) is taken as 0.
setTimeout(st, id, delayMs) ==
    [st EXCEPT !.timers = @ \cup {[id |-> id, delay |-> delayMs,
                                   due |-> st.now + (IF delayMs < 0 THEN 0
                                                     ELSE delayMs)]}]

\* cancelNextTimer(); nextTimer = window.setTimeout(callback, delayMs)
scheduleNext(st, delayMs) ==
    LET c == cancelNextTimer(st)
        id == freshTimerId(c)
    IN [setTimeout(c, id, delayMs) EXCEPT !.nextTimer = id]

\* ------------------------------------------------------- SessionReplayer
\* mutant: the speed is ignored
calculateDelay_Unscaled(currentTime, nextTime, st) ==
    (nextTime - currentTime) * Scale

\* (nextTime - currentTime) / speed, in ticks.  The division is the
\* floating-point one: by a negative speed it gives a negative delay, by 0
\* it gives Infinity (NaN for 0 / 0), written NotFinite.
calculateDelay(currentTime, nextTime, st) ==
    LET d == (nextTime - currentTime) * Scale
        s == getSpeed(st)
    IN IF s > 0 THEN d \div s
       ELSE IF s < 0 THEN 0 - (d \div (0 - s))
       ELSE NotFinite

pause(st) == Ctl_pause(st)

stop(st) == Ctl_stop(st)

\* options.onEvent(currentEvent), which may call pause() or stop() on the
\* replayer before it returns; eventProcessor.processEvent(currentEvent)
deliver(st, index) ==
    LET observed == [st EXCEPT !.log = Append(@, [kind |-> "event", idx |-> index,
                                                  at |-> st.now, spd |-> st.speed])]
    IN CASE onEvent = "pause" -> pause(observed)
         [] onEvent = "stop" -> stop(observed)
         [] OTHER -> observed

RECURSIVE processNextEvent(_)
processNextEvent(st) ==
    IF ~isPlaying(st) \/ session = Null THEN st
    ELSE
        LET index == getCurrentIndex(st) IN
        IF index >= Len(session.events)
        THEN IF loop
             THEN processNextEvent(reset(st))
             ELSE Ctl_complete(st)
        ELSE
            LET d == deliver(st, index) IN
            IF index + 1 < Len(session.events)
            THEN scheduleNext(d, calculateDelay(session.events[index + 1],
                                                session.events[index + 2], d))
            ELSE processNextEvent(incrementIndex(d))

\* mutant: the callback forgets incrementIndex()
timerCallback_NoIncrement(st) == processNextEvent(st)

\* the callback given to scheduleNext
timerCallback(st) == processNextEvent(incrementIndex(st))

play(st) ==
    IF session = Null THEN st
    ELSE IF isPlaying(st) THEN st
    ELSE processNextEvent(Ctl_play([st EXCEPT !.now = 0, !.log = <<>>]))


\* mutant: < for <=
RECURSIVE findLoop_Strict(_, _, _, _)
findLoop_Strict(events, targetTime, i, index) ==
    IF i >= Len(events) THEN index
    ELSE IF events[i + 1] < targetTime
         THEN findLoop_Strict(events, targetTime, i + 1, i)
         ELSE index

RECURSIVE findLoop(_, _, _, _)
findLoop(events, targetTime, i, index) ==
    IF i >= Len(events) THEN index
    ELSE IF events[i + 1] <= targetTime
         THEN findLoop(events, targetTime, i + 1, i)
         ELSE index

\* mutant: the first event at or after the target time
findClosestEventIndex_After(targetTime) ==
    IF session = Null THEN 0
    ELSE IF \E i \in 1..Len(session.events) : session.events[i] >= targetTime
         THEN (CHOOSE i \in 1..Len(session.events) :
                  /\ session.events[i] >= targetTime
                  /\ \A j \in 1..(i - 1) : session.events[j] < targetTime) - 1
         ELSE 0

findClosestEventIndex(targetTime) ==
    IF session = Null THEN 0
    ELSE findLoop(session.events, targetTime, 0, 0)

\* mutant: playback is not resumed
seekTo_NoResume(st, timeInMs) ==
    IF session = Null THEN st
    ELSE setCurrentIndex(stop(st),
                         findClosestEventIndex(session.startTime + timeInMs))

seekTo(st, timeInMs) ==
    IF session = Null THEN st
    ELSE
        LET wasPlaying == isPlaying(st)
            stopped == stop(st)
            targetTime == session.startTime + timeInMs
            moved == setCurrentIndex(stopped, findClosestEventIndex(targetTime))
        IN IF wasPlaying THEN play(moved) ELSE moved

setSpeed(st, s) == Ctl_setSpeed(st, s)

\* mutant: the state is reset but the pending timeout is not cleared
loadSession_NoCancel(st) == [st EXCEPT !.playing = FALSE, !.currentIndex = 0]

\* this.stop(); this.session = session; this.replayController.reset()
loadSession(st) == reset(stop(st))

\* ------------------------------------------------------------- history
\* arg: the time given to seekTo; wasPlaying: isPlaying() when the call was
\* made; wasIndex: the cursor a stop() was called at (0 for the other calls,
\* whose effect on the cursor the state itself shows)
Op(name, arg) ==
    [op |-> name, arg |-> arg, wasPlaying |-> playing,
     wasIndex |-> IF name = "stop" THEN currentIndex ELSE 0]

NewOp == [op |-> "new", arg |-> 0, wasPlaying |-> FALSE, wasIndex |-> 0]

Record(name, arg) == lastOp' = Op(name, arg)

\* a run starts at each play() that starts playing: `by` is the call that
\* made it ("play", or "seekTo" when seekTo resumes playback), `from` the
\* cursor it starts at, `prev` the call before it (for "seekTo", the seekTo
\* itself)
NoRun == [active |-> FALSE, by |-> "none", from |-> 0, prev |-> NewOp]

StartRun(by, from, prev) ==
    [active |-> TRUE, by |-> by, from |-> from, prev |-> prev]

\* the observer's log starts anew
Cleared(st) == [st EXCEPT !.log = <<>>, !.now = 0]

\* ---------------------------------------------------------------- recorder
\* SessionRecorder (src/src/core/recorder.ts) with its EventHandler and
\* EventCollector, and the document that dispatches input signals to the
\* installed listeners.  The recorder's clock counts units of TimeUnit ms.

\* EventHandler.handleScroll / handleResize: throttle(..., 100)
ScrollThrottleMs == 100
ResizeThrottleMs == 100
\* the values given as options.throttleMouseMove (ms): the default and the
\* scroll window
MoveThrottlesMs == {TimeUnit, ScrollThrottleMs}

\* options.excludeElements, an array of selectors
Selectors == <<".secret">>

\* a string that is no selector: querySelectorAll / matches / closest throw a
\* SyntaxError for it
InvalidSelector == "div["

\* an element as the handlers see it: tagName, type, the selectors it
\* matches itself and the selectors an ancestor of it matches
Div == [tag |-> "DIV", type |-> "", self |-> {}, anc |-> {}]
SecretInput == [tag |-> "INPUT", type |-> "text", self |-> {}, anc |-> {".secret"}]
PasswordInput == [tag |-> "INPUT", type |-> "password", self |-> {}, anc |-> {}]
\* the signals without an element target (scroll, resize, popstate)
NoElement == [tag |-> "", type |-> "", self |-> {}, anc |-> {}]

Elements == {Div, SecretInput, PasswordInput}

\* the listeners of setupEventListeners that read e.target, and the others
TargetKinds == {"click", "mousemove", "keydown", "keyup", "submit",
                "mouseover", "mouseout"}
PlainKinds == {"scroll", "resize", "popstate"}
ThrottledKinds == {"mousemove", "scroll", "resize"}

KeyKinds == {"keydown", "keyup"}

\* a raw input signal; every key signal is the key "a" (keyCode 65).  Only
\* the key handlers read the target's type, so the other signals go to the
\* elements the exclusion test tells apart.
Signals ==
    [kind : KeyKinds, target : Elements]
        \cup [kind : TargetKinds \ KeyKinds, target : {Div, SecretInput}]
        \cup [kind : PlainKinds, target : {NoElement}]

RealKey == "a"
RealKeyCode == 65

\* the recorder state the operations thread through
Rec ==
    [isRecording |-> isRecording, currentSession |-> currentSession,
     listeners |-> listeners, eventHandlers |-> eventHandlers,
     saveIntervalId |-> saveIntervalId, sessionTimeout |-> sessionTimeout,
     pageTimers |-> pageTimers, throttleTimers |-> throttleTimers,
     unloadHandler |-> unloadHandler, saves |-> 0]

SetRec(r) ==
    /\ isRecording' = r.isRecording
    /\ currentSession' = r.currentSession
    /\ listeners' = r.listeners
    /\ eventHandlers' = r.eventHandlers
    /\ saveIntervalId' = r.saveIntervalId
    /\ sessionTimeout' = r.sessionTimeout
    /\ pageTimers' = r.pageTimers
    /\ throttleTimers' = r.throttleTimers
    /\ unloadHandler' = r.unloadHandler

\* ------------------------------------------------------- EventCollector
matches(el, selector) == selector \in el.self

\* element.closest(selector) !== null
closest(el, selector) == selector \in (el.self \cup el.anc)

\* mutant: only the element itself is tested, not its ancestors
shouldExcludeElement_SelfOnly(el) ==
    \E i \in 1..Len(recOptions.excludeElements) :
        matches(el, recOptions.excludeElements[i])

\* excludeElements.some(...) returns true
shouldExcludeElement(el) ==
    \E i \in 1..Len(recOptions.excludeElements) :
        \/ matches(el, recOptions.excludeElements[i])
        \/ closest(el, recOptions.excludeElements[i])

\* excludeElements.some(...) throws: it comes to a string that is no selector
\* before a selector that matches, and element.matches throws
shouldExcludeElementThrows(el) ==
    \E i \in 1..Len(recOptions.excludeElements) :
        /\ recOptions.excludeElements[i] = InvalidSelector
        /\ \A j \in 1..(i - 1) :
              /\ ~matches(el, recOptions.excludeElements[j])
              /\ ~closest(el, recOptions.excludeElements[j])

\* throttle(eventType, duration) returns true
throttlePasses(r, eventType) ==
    ~\E t \in r.throttleTimers : t.key = eventType

\* throttle(eventType, duration), its effect: a passing call sets the timer
\* that ends the window
throttle(r, eventType, durationMs) ==
    IF throttlePasses(r, eventType)
    THEN [r EXCEPT !.throttleTimers =
                @ \cup {[key |-> eventType,
                         due |-> clock + durationMs \div TimeUnit]}]
    ELSE r

clearThrottles(r) == [r EXCEPT !.throttleTimers = {}]

\* ------------------------------------------------------ SessionRecorder
SessionEvent(type, name, key, keyCode, target) ==
    [timestamp |-> clock, type |-> type, name |-> name, key |-> key,
     keyCode |-> keyCode, target |-> target]

\* mutant: the event is put in front of the sequence
recordEvent_Unshift(r, type, name, key, keyCode, target) ==
    IF ~r.isRecording \/ r.currentSession = Null THEN r
    ELSE [r EXCEPT !.currentSession.events =
                <<SessionEvent(type, name, key, keyCode, target)>> \o @]

recordEvent(r, type, name, key, keyCode, target) ==
    IF ~r.isRecording \/ r.currentSession = Null THEN r
    ELSE [r EXCEPT !.currentSession.events =
                Append(@, SessionEvent(type, name, key, keyCode, target))]

\* --------------------------------------------------------- EventHandler
handleMouseClick(r, e) ==
    IF shouldExcludeElement(e.target) THEN r
    ELSE recordEvent(r, "mouseclick", "", "", 0, e.target)

handleMouseMove(r, e) ==
    IF ~throttlePasses(r, "mousemove") THEN r
    ELSE LET t == throttle(r, "mousemove", recOptions.throttleMouseMove) IN
         IF shouldExcludeElement(e.target) THEN t
         ELSE recordEvent(t, "mousemove", "", "", 0, e.target)

handleScroll(r, e) ==
    IF ~throttlePasses(r, "scroll") THEN r
    ELSE recordEvent(throttle(r, "scroll", ScrollThrottleMs),
                     "mousescroll", "", "", 0, NoElement)

\* mutant: the real key of a password field is recorded
handleKeyDown_Unmasked(r, e) ==
    IF shouldExcludeElement(e.target) THEN r
    ELSE recordEvent(r, "keydown", "", RealKey, RealKeyCode, e.target)

handleKeyDown(r, e) ==
    IF shouldExcludeElement(e.target) THEN r
    ELSE IF e.target.tag = "INPUT" /\ e.target.type = "password"
         THEN recordEvent(r, "keydown", "", "*", 0, e.target)
         ELSE recordEvent(r, "keydown", "", RealKey, RealKeyCode, e.target)

handleKeyUp(r, e) ==
    IF shouldExcludeElement(e.target) THEN r
    ELSE IF e.target.tag = "INPUT" /\ e.target.type = "password"
         THEN r
         ELSE recordEvent(r, "keyup", "", RealKey, RealKeyCode, e.target)

handleNavigation(r, e) == recordEvent(r, "navigation", "", "", 0, NoElement)

handleFormSubmit(r, e) ==
    IF ~shouldExcludeElement(e.target)
    THEN recordEvent(r, "custom", "form_submit", "", 0, e.target)
    ELSE r

handleResize(r, e) ==
    IF ~throttlePasses(r, "resize") THEN r
    ELSE recordEvent(throttle(r, "resize", ResizeThrottleMs),
                     "resize", "viewport_resize", "", 0, NoElement)

handleMouseOver(r, e) ==
    IF shouldExcludeElement(e.target) THEN r
    ELSE recordEvent(r, "custom", "mouseover", "", 0, e.target)

handleMouseOut(r, e) ==
    IF shouldExcludeElement(e.target) THEN r
    ELSE recordEvent(r, "custom", "mouseout", "", 0, e.target)

\* the listener setupEventListeners installs for the signal's kind
handle(r, e) ==
    CASE e.kind = "click" -> handleMouseClick(r, e)
      [] e.kind = "mousemove" -> handleMouseMove(r, e)
      [] e.kind = "scroll" -> handleScroll(r, e)
      [] e.kind = "keydown" -> handleKeyDown(r, e)
      [] e.kind = "keyup" -> handleKeyUp(r, e)
      [] e.kind = "popstate" -> handleNavigation(r, e)
      [] e.kind = "submit" -> handleFormSubmit(r, e)
      [] e.kind = "resize" -> handleResize(r, e)
      [] e.kind = "mouseover" -> handleMouseOver(r, e)
      [] e.kind = "mouseout" -> handleMouseOut(r, e)

\* document.addEventListener for every kind (mousemove only with
\* options.captureMouseMove); eventHandlers holds the set installed last
setupEventListeners(r) ==
    [r EXCEPT !.listeners = @ + 1, !.eventHandlers = TRUE]

\* the listeners held in eventHandlers are removed
removeEventListeners(r) ==
    clearThrottles(IF r.eventHandlers
                   THEN [r EXCEPT !.listeners = @ - 1, !.eventHandlers = FALSE]
                   ELSE r)

\* the document dispatches a signal to the listeners installed for its kind
hasListener(r, e) ==
    /\ r.listeners > 0
    /\ e.kind = "mousemove" => recOptions.captureMouseMove

\* the listener comes to a shouldExcludeElement call that throws
listenerThrows(r, e) ==
    /\ e.kind \in TargetKinds
    /\ e.kind = "mousemove" => throttlePasses(r, "mousemove")
    /\ shouldExcludeElementThrows(e.target)

\* the state a throwing listener leaves: handleMouseMove has set its
\* throttle timer, the other listeners have done nothing yet
thrown(r, e) ==
    IF e.kind = "mousemove"
    THEN throttle(r, "mousemove", recOptions.throttleMouseMove)
    ELSE r

dispatch(r, e) ==
    IF ~hasListener(r, e) THEN r
    ELSE IF listenerThrows(r, e) THEN thrown(r, e)
    ELSE handle(r, e)

\* generateUniqueId(): an identity other than the one of the session it
\* replaces
generateUniqueId(r) ==
    IF r.currentSession = Null THEN "session-a"
    ELSE IF r.currentSession.id = "session-a" THEN "session-b" ELSE "session-a"

initializeSession(r) ==
    [r EXCEPT !.currentSession = [id |-> generateUniqueId(r), startTime |-> clock,
                                  endTime |-> clock, events |-> <<>>]]

\* window.setInterval / window.setTimeout return a handle not in use
freshPageTimer(r) ==
    CHOOSE i \in 1..(Cardinality(r.pageTimers) + 1) :
        /\ \A t \in r.pageTimers : t.id # i
        /\ \A j \in 1..(i - 1) : \E t \in r.pageTimers : t.id = j

\* options.maxDuration > 0 (the default)
startSessionEventCapture(r) ==
    LET l == [setupEventListeners(r) EXCEPT !.isRecording = TRUE]
        s == [l EXCEPT !.saveIntervalId = freshPageTimer(l),
                       !.pageTimers = @ \cup {[id |-> freshPageTimer(l),
                                               timer |-> "saveInterval"]}]
    IN [s EXCEPT !.sessionTimeout = freshPageTimer(s),
                 !.pageTimers = @ \cup {[id |-> freshPageTimer(s),
                                         timer |-> "maxDuration"]},
                 !.unloadHandler = TRUE]

recordNavigationEvent(r) == recordEvent(r, "navigation", "", "", 0, NoElement)

\* mutant: no test of isRecording
startRecording_NoGuard(r) ==
    recordNavigationEvent(startSessionEventCapture(initializeSession(r)))

\* options.captureHtml = false (the default)
startRecording(r) ==
    IF r.isRecording THEN r
    ELSE recordNavigationEvent(startSessionEventCapture(initializeSession(r)))

clearPageTimer(r, id) == [r EXCEPT !.pageTimers = {t \in @ : t.id # id}]

\* mutant: the max-duration timeout is left pending
cleanupSession_KeepTimeout(r) ==
    LET l == removeEventListeners(r)
        i == IF l.saveIntervalId # NoTimer
             THEN [clearPageTimer(l, l.saveIntervalId) EXCEPT !.saveIntervalId = NoTimer]
             ELSE l
    IN [i EXCEPT !.unloadHandler = FALSE, !.isRecording = FALSE]

cleanupSession(r) ==
    LET l == removeEventListeners(r)
        i == IF l.saveIntervalId # NoTimer
             THEN [clearPageTimer(l, l.saveIntervalId) EXCEPT !.saveIntervalId = NoTimer]
             ELSE l
        t == IF i.sessionTimeout # NoTimer
             THEN [clearPageTimer(i, i.sessionTimeout) EXCEPT !.sessionTimeout = NoTimer]
             ELSE i
    IN [t EXCEPT !.unloadHandler = FALSE, !.isRecording = FALSE]

\* saveCurrentSession() hands the session to storage and leaves the recorder
\* as it is; `saves` counts the calls of one step
saveCurrentSession(r) ==
    IF r.currentSession = Null THEN r ELSE [r EXCEPT !.saves = @ + 1]

stopRecording(r) ==
    IF ~r.isRecording \/ r.currentSession = Null THEN r
    ELSE saveCurrentSession(
             [cleanupSession(r) EXCEPT !.currentSession.endTime = clock])

\* ------------------------------------------------------ recorder history
\* the last recorder step: its name and, for a signal that a listener
\* handled without recording an event, the signal
NoSignal == [kind |-> "", target |-> NoElement]

RecOp(name, e) == [op |-> name, dropped |-> e, raised |-> FALSE, saves |-> 0]

NoWindow == [k \in ThrottledKinds |-> [eligible |-> FALSE, emitted |-> 0]]

\* the recorder before its constructor runs
NewRecorder ==
    [isRecording |-> FALSE, currentSession |-> Null, listeners |-> 0,
     eventHandlers |-> FALSE, saveIntervalId |-> NoTimer,
     sessionTimeout |-> NoTimer, pageTimers |-> {}, throttleTimers |-> {},
     unloadHandler |-> FALSE, saves |-> 0]

IsRec(r) ==
    /\ isRecording = r.isRecording
    /\ currentSession = r.currentSession
    /\ listeners = r.listeners
    /\ eventHandlers = r.eventHandlers
    /\ saveIntervalId = r.saveIntervalId
    /\ sessionTimeout = r.sessionTimeout
    /\ pageTimers = r.pageTimers
    /\ throttleTimers = r.throttleTimers
    /\ unloadHandler = r.unloadHandler

\* no recorder is in use
RecorderIdle ==
    /\ recOptions = [captureMouseMove |-> TRUE, throttleMouseMove |-> TimeUnit,
                     excludeElements |-> <<>>]
    /\ clock = 0
    /\ IsRec(NewRecorder)
    /\ win = NoWindow
    /\ recOp = RecOp("new", NoSignal)

\* ---------------------------------------------------- LocalStorageAdapter

\* The sessions handed to the adapter.  `src` names the session object the
\* record was made from; it travels with the record and is what a read is
\* compared with.  Times are Dates, in ms.
SessionA1 ==
    [id |-> "a", src |-> "a1", startTime |-> 1000, endTime |-> 1000,
     events |-> <<[timestamp |-> 1000, type |-> "navigation"]>>]

SessionA2 ==
    [id |-> "a", src |-> "a2", startTime |-> 1000, endTime |-> 2500,
     events |-> <<[timestamp |-> 1000, type |-> "navigation"],
                  [timestamp |-> 1999, type |-> "mouseclick"],
                  [timestamp |-> 2001, type |-> "keydown"]>>]

SessionB1 ==
    [id |-> "b", src |-> "b1", startTime |-> 3007, endTime |-> 3050,
     events |-> <<[timestamp |-> 3007, type |-> "navigation"],
                  [timestamp |-> 3050, type |-> "mousescroll"]>>]

StoredSessions == {SessionA1, SessionA2, SessionB1}

StoredIds == {s.id : s \in StoredSessions}

Original(src) == CHOOSE s \in StoredSessions : s.src = src

\* the most adapter calls whose continuation has not run yet
MaxPending == 2

\* Date.prototype.toJSON, called by JSON.stringify: the ISO text of a Date,
\* whole seconds and three digits of milliseconds
toJSON_Seconds(date) ==
    [seconds |-> date \div 1000, millis |-> <<0, 0, 0>>]

toJSON(date) ==
    [seconds |-> date \div 1000,
     millis |-> <<(date \div 100) % 10, (date \div 10) % 10, date % 10>>]

\* new Date(text) of an ISO text
newDate(text) ==
    text.seconds * 1000
    + text.millis[1] * 100 + text.millis[2] * 10 + text.millis[3]

\* a copy of the session; its Dates stay Dates
prepareSessionForStorage(s) ==
    [s EXCEPT !.events = [i \in 1..Len(s.events) |-> s.events[i]]]

\* JSON.stringify of one session
stringifySession(s) ==
    [s EXCEPT !.startTime = toJSON(@), !.endTime = toJSON(@),
              !.events = [i \in 1..Len(s.events) |->
                             [s.events[i] EXCEPT !.timestamp = toJSON(@)]]]

\* JSON.stringify(sessions)
stringify(sessions) ==
    [i \in 1..Len(sessions) |-> stringifySession(sessions[i])]

prepareSessionFromStorage(s) ==
    [s EXCEPT !.startTime = newDate(@), !.endTime = newDate(@),
              !.events = [i \in 1..Len(s.events) |->
                             [s.events[i] EXCEPT !.timestamp = newDate(@)]]]

NoItem == [present |-> FALSE, text |-> <<>>]

Item(text) == [present |-> TRUE, text |-> text]

\* localStorage.getItem, a missing item read as [], and every parsed session
\* through prepareSessionFromStorage
getAllSessions(item) ==
    IF ~item.present
    THEN <<>>
    ELSE [i \in 1..Len(item.text) |-> prepareSessionFromStorage(item.text[i])]

findIndex(sessions, id) ==
    IF \E i \in 1..Len(sessions) : sessions[i].id = id
    THEN CHOOSE i \in 1..Len(sessions) :
             /\ sessions[i].id = id
             /\ \A j \in 1..(i - 1) : sessions[j].id # id
    ELSE 0 - 1

NoSession == [id |-> "none"]

\* localStorage.setItem: writes the value or throws
setItem(item, text, throws) ==
    IF throws THEN item ELSE Item(text)

\* saveSession after its await: the list read at the call, with the session
\* replaced or pushed, is written; a throw is logged and thrown again
saveSession_Swallow(item, sessions, s, throws) ==
    LET existingIndex == findIndex(sessions, s.id)
        list == IF existingIndex >= 0
                THEN [sessions EXCEPT ![existingIndex] =
                                          prepareSessionForStorage(s)]
                ELSE Append(sessions, prepareSessionForStorage(s))
    IN [item |-> setItem(item, stringify(list), throws),
        outcome |-> "resolved",
        result |-> NoSession]

saveSession(item, sessions, s, throws) ==
    LET existingIndex == findIndex(sessions, s.id)
        list == IF existingIndex >= 0
                THEN [sessions EXCEPT ![existingIndex] =
                                          prepareSessionForStorage(s)]
                ELSE Append(sessions, prepareSessionForStorage(s))
    IN [item |-> setItem(item, stringify(list), throws),
        outcome |-> IF throws THEN "rejected" ELSE "resolved",
        result |-> NoSession]

\* getSession after its await; the found session goes through
\* prepareSessionFromStorage once more, and new Date(date) is the same time
getSession(item, sessions, id) ==
    LET i == findIndex(sessions, id)
    IN [item |-> item,
        outcome |-> "resolved",
        result |-> IF i >= 0 THEN sessions[i] ELSE NoSession]

filter(sessions, id) ==
    LET keep(s) == s.id # id IN SelectSeq(sessions, keep)

\* deleteSession after its await: a throw is logged and thrown again
deleteSession(item, sessions, id, throws) ==
    [item |-> setItem(item, stringify(filter(sessions, id)), throws),
     outcome |-> IF throws THEN "rejected" ELSE "resolved",
     result |-> NoSession]

NoStoreOp ==
    [op |-> "none", id |-> "none", outcome |-> "none", result |-> NoSession,
     threw |-> FALSE, held |-> NoSession]

StorageIdle ==
    /\ storageItem = NoItem
    /\ pending = <<>>
    /\ storeOp = NoStoreOp

\* ----------------------------------------------------- HtmlCaptureHelper
\* capturePageHtml works on a clone of the document.  A URL is what the code
\* reads of it: whether it starts with "http", its host, and the domain
\* names that occur in its path or query.
NoUrl == [kind |-> "none", host |-> "", mentions |-> {}]

SafeDomain == "cdn.safe"

\* /site.css, https://cdn.safe/a.css, https://cdn.safe/lib.js,
\* https://evil.example/x.js?via=cdn.safe and https://evil.example/y.js
SiteCss == [kind |-> "relative", host |-> "", mentions |-> {}]
SafeCss == [kind |-> "http", host |-> SafeDomain, mentions |-> {}]
SafeJs == [kind |-> "http", host |-> SafeDomain, mentions |-> {}]
EvilQueryJs == [kind |-> "http", host |-> "evil.example", mentions |-> {SafeDomain}]
EvilJs == [kind |-> "http", host |-> "evil.example", mentions |-> {}]

NoText == [note |-> "none"]

Node(tag, url, self) ==
    [tag |-> tag, url |-> url, text |-> NoText, present |-> TRUE, self |-> self]

\* document.documentElement: two stylesheet links, three external scripts,
\* an inline script, an element the exclusion list names with a stylesheet
\* link and a script inside it, and the head.  `self` holds the selectors
\* that match the node or an element it lies in: el.remove() takes the
\* subtree.
Page ==
    <<Node("link", SiteCss, {}), Node("link", SafeCss, {}),
      Node("script", SafeJs, {}), Node("script", EvilQueryJs, {}),
      Node("script", EvilJs, {}), Node("script", NoUrl, {}),
      Node("div", NoUrl, {".secret"}), Node("link", SafeCss, {".secret"}),
      Node("script", SafeJs, {".secret"})>>

NoClone == [nodes |-> <<>>, meta |-> FALSE]

\* url.startsWith("http")
startsWithHttp(url) == url.kind = "http"

isDataUrl(url) == url.kind = "data"

\* url.includes(domain)
includes(url, domain) == domain = url.host \/ domain \in url.mentions

isResourceFromAllowedDomain(url) ==
    IF isDataUrl(url) \/ ~startsWithHttp(url) THEN TRUE
    ELSE IF Len(snapOptions.allowedResourceDomains) = 0 THEN FALSE
    ELSE \E i \in 1..Len(snapOptions.allowedResourceDomains) :
             includes(url, snapOptions.allowedResourceDomains[i])

remove(node) == [node EXCEPT !.present = FALSE]

\* querySelectorAll("script") ... forEach
processSafeScripts(node) ==
    IF node.url = NoUrl
    THEN IF snapOptions.inlineScriptHandling = "remove" THEN remove(node)
         ELSE node
    ELSE IF ~isResourceFromAllowedDomain(node.url) THEN remove(node)
    ELSE node

processScripts(clone) ==
    [clone EXCEPT !.nodes =
        [i \in DOMAIN @ |->
            IF @[i].tag = "script" /\ @[i].present
            THEN CASE snapOptions.scriptHandling = "remove" -> remove(@[i])
                   [] snapOptions.scriptHandling = "keep-safe" ->
                          processSafeScripts(@[i])
                   [] OTHER -> @[i]
            ELSE @[i]]]

\* querySelectorAll(selector) throws for a string that is no selector; the
\* throw is caught and the selector skipped
removeExcludedElements(clone) ==
    [clone EXCEPT !.nodes =
        [i \in DOMAIN @ |->
            IF \E k \in 1..Len(snapOptions.excludeElements) :
                   /\ snapOptions.excludeElements[k] # InvalidSelector
                   /\ snapOptions.excludeElements[k] \in @[i].self
            THEN remove(@[i])
            ELSE @[i]]]

\* the text of a placeholder, of a fetched resource, and of the comment
\* fetchResource returns for a fetch that failed
Loading(url) == [note |-> "Carregando", of |-> url]
ResponseText(url) == [note |-> "content", of |-> url]
ErrorComment(url) == [note |-> "Erro ao buscar", of |-> url]
Inlined(url, content) == [note |-> "Inlined from", of |-> url, body |-> content]

\* mutant: the failure is thrown to the caller
fetchResource_Rethrow(url, ok) ==
    IF ok THEN [threw |-> FALSE, text |-> ResponseText(url)]
    ELSE [threw |-> TRUE, text |-> NoText]

\* ResourceHelper.fetchResource: the content, or for any failure (network,
\* status, body) a comment that names it
fetchResource(url, ok) ==
    IF ok THEN [threw |-> FALSE, text |-> ResponseText(url)]
    ELSE [threw |-> FALSE, text |-> ErrorComment(url)]

\* createTemporaryStylePlaceholder / createTemporaryScriptPlaceholder: the
\* element is replaced by a style / script element without href / src
placeholder(node, tag) ==
    [node EXCEPT !.tag = tag, !.url = NoUrl, !.text = Loading(node.url)]

\* the elements a processor starts to inline: allowed and inlining is on
inlines(clone, tag, on) ==
    {i \in DOMAIN clone.nodes :
        /\ clone.nodes[i].tag = tag
        /\ clone.nodes[i].present
        /\ clone.nodes[i].url # NoUrl
        /\ isResourceFromAllowedDomain(clone.nodes[i].url)
        /\ on}

\* the loop of processStylesheets / ScriptProcessor.processScripts: inline,
\* or remove unless external resources are kept
processExternal(clone, tag, on, placeholderTag) ==
    [clone EXCEPT !.nodes =
        [i \in DOMAIN @ |->
            IF i \in inlines(clone, tag, on) THEN placeholder(@[i], placeholderTag)
            ELSE IF /\ @[i].tag = tag /\ @[i].present /\ @[i].url # NoUrl
                    /\ ~snapOptions.keepExternalResources
                 THEN remove(@[i])
                 ELSE @[i]]]

processStylesheets(clone) ==
    processExternal(clone, "link", snapOptions.inlineCss, "style")

SP_processScripts(clone) ==
    processExternal(clone, "script", snapOptions.inlineJs, "script")

\* inlineStylesheet / inlineScript after the fetch: the placeholder's text
\* is replaced; a throw is caught and logged
replacePlaceholderWithContent(clone, i, fetch) ==
    IF fetch.threw THEN clone
    ELSE [clone EXCEPT !.nodes[i].text = Inlined(@.of, fetch.text)]

\* styleTag.textContent = "/* Optimized CSS */\n" + styleTag.textContent
Optimized(text) == [note |-> "Optimized CSS", body |-> text]

removeUnusedCss(clone) ==
    [clone EXCEPT !.nodes =
        [i \in DOMAIN @ |->
            IF @[i].tag = "style" /\ @[i].present
            THEN [@[i] EXCEPT !.text = Optimized(@)]
            ELSE @[i]]]

addCaptureMetadata(clone) == [clone EXCEPT !.meta = TRUE]

\* capturePageHtml after its await: the page has no image, font link,
\* iframe or media element, so processImages, optimizeOtherResources and
\* optimizeImages find nothing
finish(clone) ==
    addCaptureMetadata(IF snapOptions.optimizationLevel > 0
                       THEN removeUnusedCss(clone) ELSE clone)

NoFetches == [i \in DOMAIN Page |-> "none"]

DefaultSnapOptions ==
    [scriptHandling |-> "remove", inlineScriptHandling |-> "remove",
     allowedResourceDomains |-> <<SafeDomain>>, inlineCss |-> TRUE,
     inlineJs |-> TRUE, keepExternalResources |-> TRUE,
     optimizationLevel |-> 1, excludeElements |-> <<>>]

SnapshotIdle ==
    /\ snapOptions = DefaultSnapOptions
    /\ htmlClone = NoClone
    /\ stage = "idle"
    /\ inflight = {}
    /\ fetched = NoFetches
    /\ settled = <<>>

\* ------------------------------------------------------------- actions
\* no content is configured and nothing is shown
\* defaultOptions: skipInactivity false, onEvent () => {}
\* no capture of the page has been started
CaptureIdle ==
    /\ started = 0
    /\ capturing = {}
    /\ attached = {}

\* new SessionPlayer(...): no session, duration and currentTime 0
TimelineIdle ==
    /\ playerSession = Null
    /\ duration = 0
    /\ P_currentTime = 0

\* sandbox capabilities
AllowScripts == "allow-scripts"
AllowSameOrigin == "allow-same-origin"

\* the sandbox attribute: absent, or present with its tokens
NoAttr == [present |-> FALSE, tokens |-> {}]
Attr(tokens) == [present |-> TRUE, tokens |-> tokens]

\* defaultOptions.iframeSandbox, sandboxOptions and allowScripts
DefaultSandboxOptions ==
    [iframeSandbox |-> TRUE, sandboxOptions |-> {AllowScripts, AllowSameOrigin},
     allowScripts |-> TRUE]

NoContentLoad == [kind |-> "none", sandbox |-> NoAttr]

\* new SessionReplayer() with the default options and an iframe that has
\* no attribute; nothing loaded
AllowListIdle ==
    /\ sandboxConfig = DefaultSandboxOptions
    /\ frameAttrs = [src |-> "", sandbox |-> NoAttr]
    /\ contentLoad = NoContentLoad

\* no element
NoMatch == "none"

\* no event: nothing processed yet
NoReplayed ==
    [type |-> "none", x |-> 0,
     target |-> [given |-> FALSE, tagName |-> "", id |-> "",
                 className |-> "", path |-> ""]]

NotFound == [element |-> NoMatch, raised |-> FALSE]

\* new EventSimulator(): nothing hovered, nothing replayed
ResolveIdle ==
    /\ lastHoveredElement = NoMatch
    /\ replayed = 0
    /\ lastEvent = NoReplayed
    /\ found = NotFound
    /\ sent = <<>>

ExtraIdle == CaptureIdle /\ TimelineIdle /\ AllowListIdle /\ ResolveIdle

\* new SessionReplayer(options): this.eventSimulator = new EventSimulator(),
\* whose document is the page's; no load of the iframe has been started
SandboxIdle ==
    /\ simulatorDoc = "host"
    /\ iframeLoad = "none"

DefaultReplayOptions ==
    /\ skipInactivity = FALSE
    /\ onEvent = "none"

NoContent == [originalUrl |-> "", contentHtml |-> ""]

NoLoad == [done |-> FALSE, html |-> "", url |-> "", pageHtml |-> "", pageUrl |-> ""]

ContentIdle ==
    /\ viaPlayer = FALSE
    /\ contentOptions = NoContent
    /\ iframeManager = NoContent
    /\ iframe = [src |-> "", shown |-> [kind |-> "none", value |-> ""]]
    /\ hasSession = FALSE
    /\ lastLoad = NoLoad

Init ==
    /\ DefaultReplayOptions
    /\ ContentIdle
    /\ RecorderIdle
    /\ StorageIdle
    /\ SnapshotIdle
    /\ SandboxIdle
    /\ ExtraIdle
    /\ artifact \in Sessions
    /\ session = Null
    /\ loop \in BOOLEAN
    /\ speed \in Speeds
    /\ playing = FALSE
    /\ currentIndex = 0
    /\ nextTimer = NoTimer
    /\ timers = {}
    /\ now = 0
    /\ log = <<>>
    /\ run = NoRun
    /\ lastOp = NewOp

\* loadSession(session), its effect on the replay scheduler
LoadSessionReplay ==
    /\ session' = artifact
    /\ Set(Cleared(loadSession(State)))
    /\ run' = NoRun
    /\ Record("loadSession", 0)
    /\ UNCHANGED <<artifact, loop>>

LoadSession ==
    /\ LoadSessionReplay
    /\ UNCHANGED otherVars

Play ==
    /\ Set(play(State))
    /\ run' = IF session = Null \/ playing THEN run
              ELSE StartRun("play", currentIndex, lastOp)
    /\ Record("play", 0)
    /\ UNCHANGED <<artifact, session, loop>>
    /\ UNCHANGED otherVars

Pause ==
    /\ Set(pause(State))
    /\ run' = NoRun
    /\ Record("pause", 0)
    /\ UNCHANGED <<artifact, session, loop>>
    /\ UNCHANGED otherVars

Stop ==
    /\ Set(Cleared(stop(State)))
    /\ run' = NoRun
    /\ Record("stop", 0)
    /\ UNCHANGED <<artifact, session, loop>>
    /\ UNCHANGED otherVars

SeekTo ==
    \E t \in SeekTimes :
        /\ Set(seekTo(State, t))
        /\ run' = IF session = Null THEN run
                  ELSE IF playing
                       THEN StartRun("seekTo",
                                     findClosestEventIndex(session.startTime + t),
                                     Op("seekTo", t))
                       ELSE NoRun
        /\ Record("seekTo", t)
        /\ UNCHANGED <<artifact, session, loop>>
        /\ UNCHANGED otherVars

SetSpeed ==
    \E s \in Speeds :
        /\ Set(setSpeed(State, s))
        /\ Record("setSpeed", 0)
        /\ UNCHANGED <<artifact, session, loop, run>>
        /\ UNCHANGED otherVars

\* a pending timeout comes due: the clock reaches its due time, the timer
\* leaves the timer table and its callback runs
TimerFire ==
    \E t \in timers :
        /\ \A u \in timers : t.due <= u.due
        /\ Set(timerCallback([State EXCEPT !.timers = @ \ {t}, !.now = t.due]))
        /\ Record("timer", 0)
        /\ UNCHANGED <<artifact, session, loop, run>>
        /\ UNCHANGED otherVars

Next ==
    \/ LoadSession
    \/ Play
    \/ Pause
    \/ Stop
    \/ SeekTo
    \/ SetSpeed
    \/ TimerFire

Spec == Init /\ [][Next]_vars

\* --------------------------------------------------- skipInactivity option
\* options.maxInactivityDelay (ms), the default
MaxInactivityDelay == 1000

\* events at t=0, 500 and 2500 ms: the second gap is longer than
\* MaxInactivityDelay
InactiveSession == MakeSession(<<0, 500, 2500>>)

\* new SessionReplayer({skipInactivity, speed, loop})
InitSkipInactivity ==
    /\ skipInactivity \in BOOLEAN
    /\ onEvent = "none"
    /\ ContentIdle
    /\ RecorderIdle
    /\ StorageIdle
    /\ SnapshotIdle
    /\ SandboxIdle
    /\ ExtraIdle
    /\ artifact = InactiveSession
    /\ session = Null
    /\ loop \in BOOLEAN
    /\ speed \in Speeds
    /\ playing = FALSE
    /\ currentIndex = 0
    /\ nextTimer = NoTimer
    /\ timers = {}
    /\ now = 0
    /\ log = <<>>
    /\ run = NoRun
    /\ lastOp = NewOp

SpecSkipInactivity == InitSkipInactivity /\ [][Next]_vars

\* ------------------------------------- calls made from inside onEvent
\* new SessionReplayer({onEvent, speed, loop})
InitReentrant ==
    /\ skipInactivity = FALSE
    /\ onEvent \in {"none", "pause", "stop"}
    /\ ContentIdle
    /\ RecorderIdle
    /\ StorageIdle
    /\ SnapshotIdle
    /\ SandboxIdle
    /\ ExtraIdle
    /\ artifact = ScenarioSession
    /\ session = Null
    /\ loop \in BOOLEAN
    /\ speed \in Speeds
    /\ playing = FALSE
    /\ currentIndex = 0
    /\ nextTimer = NoTimer
    /\ timers = {}
    /\ now = 0
    /\ log = <<>>
    /\ run = NoRun
    /\ lastOp = NewOp

SpecReentrant == InitReentrant /\ [][Next]_vars

\* ------------------------------------------- any value given as the speed
\* new SessionReplayer({speed}): the option is stored as it is given
InitAnySpeed ==
    /\ DefaultReplayOptions
    /\ ContentIdle
    /\ RecorderIdle
    /\ StorageIdle
    /\ SnapshotIdle
    /\ SandboxIdle
    /\ ExtraIdle
    /\ artifact = ScenarioSession
    /\ session = Null
    /\ loop \in BOOLEAN
    /\ speed \in SpeedInputs
    /\ playing = FALSE
    /\ currentIndex = 0
    /\ nextTimer = NoTimer
    /\ timers = {}
    /\ now = 0
    /\ log = <<>>
    /\ run = NoRun
    /\ lastOp = NewOp

\* setSpeed(s): the argument is stored as it is given
SetAnySpeed ==
    \E s \in SpeedInputs :
        /\ Set(setSpeed(State, s))
        /\ Record("setSpeed", s)
        /\ UNCHANGED <<artifact, session, loop, run>>
        /\ UNCHANGED otherVars

NextAnySpeed ==
    \/ LoadSession
    \/ Play
    \/ Pause
    \/ Stop
    \/ SeekTo
    \/ SetAnySpeed
    \/ TimerFire

SpecAnySpeed == InitAnySpeed /\ [][NextAnySpeed]_vars

\* ------------------------------------------------------- replay surface
\* the replay scheduler as constructed with the default options; the
\* specifications of the other components leave it there
ReplayIdle ==
    /\ DefaultReplayOptions
    /\ artifact = ScenarioSession
    /\ session = Null
    /\ loop = FALSE
    /\ speed = 1
    /\ playing = FALSE
    /\ currentIndex = 0
    /\ nextTimer = NoTimer
    /\ timers = {}
    /\ now = 0
    /\ log = <<>>
    /\ run = NoRun
    /\ lastOp = NewOp

\* content values; "" is an absent one (every test of the code is a
\* truthiness test, which "" and undefined both fail)
OverrideHtml == "<override>"
OverrideUrl == "http://override/"
RecordedHtmls == {"<a>", "<b>"}
RecordedUrls == {"http://a/", "http://b/"}

\* RecordingSession reduced to what the content selection reads: pageHtml
\* and pageUrl (the viewport is always recorded)
ContentSessions ==
    [pageHtml : {""} \cup RecordedHtmls, pageUrl : {""} \cup RecordedUrls]

\* the document the iframe shows
Nothing == [kind |-> "none", value |-> ""]
Html(h) == [kind |-> "html", value |-> h]
Url(u) == [kind |-> "url", value |-> u]

\* the state the content operations thread through
Content ==
    [options |-> contentOptions, manager |-> iframeManager, iframe |-> iframe,
     hasSession |-> hasSession]

SetContent(c) ==
    /\ contentOptions' = c.options
    /\ iframeManager' = c.manager
    /\ iframe' = c.iframe
    /\ hasSession' = c.hasSession

IM_setOriginalUrl(c, url) == [c EXCEPT !.manager.originalUrl = url]

IM_setContentHtml(c, html) == [c EXCEPT !.manager.contentHtml = html]

\* doc.open(); doc.write(html); doc.close(), or iframe.srcdoc = html: the
\* src attribute is left as it is
loadHtmlContent(c, html) == [c EXCEPT !.iframe.shown = Html(html)]

\* the iframe is set (options.targetIframe)
prepareIframe(c) ==
    IF c.manager.contentHtml # ""
    THEN loadHtmlContent(c, c.manager.contentHtml)
    ELSE IF c.manager.originalUrl # "" /\ c.iframe.src # c.manager.originalUrl
         THEN [c EXCEPT !.iframe.src = c.manager.originalUrl,
                        !.iframe.shown = Url(c.manager.originalUrl)]
         ELSE c

\* SessionReplayer.setOriginalUrl
R_setOriginalUrl(c, url) ==
    LET o == [c EXCEPT !.options.originalUrl = url, !.options.contentHtml = ""]
        m == IM_setContentHtml(IM_setOriginalUrl(o, url), "")
    IN IF m.hasSession THEN prepareIframe(m) ELSE m

\* SessionReplayer.setContentHtml
R_setContentHtml(c, html) ==
    LET o == [c EXCEPT !.options.contentHtml = html, !.options.originalUrl = ""]
        m == IM_setOriginalUrl(IM_setContentHtml(o, html), "")
    IN IF m.hasSession THEN prepareIframe(m) ELSE m

\* SessionReplayer.loadSession, the content selection: this.session =
\* session, then lines 263-287
R_loadSession(c, s) ==
    LET optUrl == c.options.originalUrl
        optHtml == c.options.contentHtml
        useHtml == IF optUrl = "" /\ optHtml = "" /\ s.pageHtml # ""
                   THEN s.pageHtml ELSE optHtml
        useUrl == IF optUrl = "" /\ useHtml = "" /\ s.pageUrl # ""
                  THEN s.pageUrl ELSE optUrl
        l == [c EXCEPT !.hasSession = TRUE]
        u == IF useHtml # "" THEN IM_setContentHtml(l, useHtml)
             ELSE IF useUrl # "" THEN IM_setOriginalUrl(l, useUrl)
             ELSE l
    IN prepareIframe(u)

\* SessionPlayer.loadSession(session, originalUrl, contentHtml)
P_loadSession(c, s, originalUrl, contentHtml) ==
    LET set == IF contentHtml # "" THEN R_setContentHtml(c, contentHtml)
               ELSE IF originalUrl # "" THEN R_setOriginalUrl(c, originalUrl)
               ELSE IF s.pageHtml # "" THEN R_setContentHtml(c, s.pageHtml)
               ELSE IF s.pageUrl # "" THEN R_setOriginalUrl(c, s.pageUrl)
               ELSE c
    IN R_loadSession(set, s)

Loaded(s, url, html) ==
    [done |-> TRUE, html |-> html, url |-> url,
     pageHtml |-> s.pageHtml, pageUrl |-> s.pageUrl]

\* new SessionReplayer({targetIframe, originalUrl, contentHtml}), directly or
\* by new SessionPlayer(container): the options go to the IframeManager
InitContent ==
    /\ ReplayIdle
    /\ RecorderIdle
    /\ StorageIdle
    /\ SnapshotIdle
    /\ SandboxIdle
    /\ ExtraIdle
    /\ viaPlayer \in BOOLEAN
    /\ contentOptions \in [originalUrl : {"", OverrideUrl},
                           contentHtml : {"", OverrideHtml}]
    /\ viaPlayer => contentOptions = NoContent
    /\ iframeManager = contentOptions
    /\ iframe = [src |-> "", shown |-> Nothing]
    /\ hasSession = FALSE
    /\ lastLoad = NoLoad

\* replayer.loadSession(s): the overrides are the replayer's options
ReplayerLoad ==
    /\ ~viaPlayer
    /\ \E s \in ContentSessions :
        /\ SetContent(R_loadSession(Content, s))
        /\ lastLoad' = Loaded(s, contentOptions.originalUrl,
                              contentOptions.contentHtml)
    /\ UNCHANGED <<viaPlayer, outsideContent>>

\* player.loadSession(s, originalUrl, contentHtml)
PlayerLoad ==
    /\ viaPlayer
    /\ \E s \in ContentSessions, u \in {"", OverrideUrl}, h \in {"", OverrideHtml} :
        /\ SetContent(P_loadSession(Content, s, u, h))
        /\ lastLoad' = Loaded(s, u, h)
    /\ UNCHANGED <<viaPlayer, outsideContent>>

NextContent ==
    \/ ReplayerLoad
    \/ PlayerLoad

SpecContent == InitContent /\ [][NextContent]_vars

\* ------------------------------------------------------ recorder actions
\* new SessionRecorder(options): with autoStart the constructor starts
\* recording
InitRecorder ==
    /\ ReplayIdle
    /\ ContentIdle
    /\ StorageIdle
    /\ SnapshotIdle
    /\ SandboxIdle
    /\ ExtraIdle
    /\ recOptions \in [captureMouseMove : BOOLEAN,
                       throttleMouseMove : MoveThrottlesMs,
                       excludeElements : {Selectors}]
    /\ clock = 0
    /\ \E autoStart \in BOOLEAN :
          IsRec(IF autoStart THEN startRecording(NewRecorder) ELSE NewRecorder)
    /\ win = NoWindow
    /\ recOp = RecOp("new", NoSignal)

StartRecording ==
    /\ SetRec(startRecording(Rec))
    /\ recOp' = RecOp("startRecording", NoSignal)
    /\ UNCHANGED <<recOptions, clock, win, outsideRecorder>>

\* the sessions a recorder makes in a run
MaxStarts == 2

\* startRecording() with options.captureHtml: after initializeSession() the
\* capture is started, and its promise is left to resolve later
StartRecordingCapture ==
    /\ isRecording \/ started < MaxStarts
    /\ SetRec(startRecording(Rec))
    /\ recOp' = RecOp("startRecording", NoSignal)
    /\ started' = IF isRecording THEN started ELSE started + 1
    /\ capturing' = IF isRecording THEN capturing
                    ELSE capturing \cup {started + 1}
    /\ UNCHANGED <<recOptions, clock, win, attached, outsideCapture>>

\* a capture resolves: this.currentSession.pageHtml = html, whatever session
\* currentSession is by then
CaptureResolves ==
    \E c \in capturing :
        /\ capturing' = capturing \ {c}
        /\ attached' = attached \cup {[to |-> started, of |-> c]}
        /\ UNCHANGED <<started, recorderVars, outsideCapture>>

\* stopRecording(), called by the host page or by the beforeunload handler
StopRecording ==
    /\ SetRec(stopRecording(Rec))
    /\ win' = IF isRecording THEN NoWindow ELSE win
    /\ recOp' = [RecOp("stopRecording", NoSignal)
                    EXCEPT !.saves = stopRecording(Rec).saves]
    /\ UNCHANGED <<recOptions, clock, outsideRecorder>>

\* beforeunload reaches window: handleBeforeUnload calls stopRecording()
BeforeUnload ==
    /\ unloadHandler
    /\ SetRec(stopRecording(Rec))
    /\ win' = NoWindow
    /\ recOp' = [RecOp("beforeunload", NoSignal)
                    EXCEPT !.saves = stopRecording(Rec).saves]
    /\ UNCHANGED <<recOptions, clock, outsideRecorder>>

\* the max-duration timeout fires: its callback is stopRecording()
MaxDuration ==
    /\ \E t \in pageTimers : t.timer = "maxDuration"
    /\ SetRec(stopRecording([Rec EXCEPT !.pageTimers =
                                {t \in @ : t.timer # "maxDuration"}]))
    /\ win' = NoWindow
    /\ recOp' = [RecOp("maxDuration", NoSignal)
                    EXCEPT !.saves =
                        stopRecording([Rec EXCEPT !.pageTimers =
                            {t \in @ : t.timer # "maxDuration"}]).saves]
    /\ UNCHANGED <<recOptions, clock, outsideRecorder>>

\* a raw input signal reaches the document
Signal ==
    \E e \in Signals :
        /\ currentSession # Null =>
              Len(dispatch(Rec, e).currentSession.events) <= MaxLog
        /\ SetRec(dispatch(Rec, e))
        /\ win' = IF hasListener(Rec, e) /\ e.kind \in ThrottledKinds
                  THEN [win EXCEPT ![e.kind] =
                          [eligible |-> @.eligible
                              \/ ~shouldExcludeElement(e.target),
                           emitted |-> @.emitted +
                              (Len(dispatch(Rec, e).currentSession.events)
                                  - Len(currentSession.events))]]
                  ELSE win
        /\ recOp' = [RecOp("signal",
                           IF hasListener(Rec, e)
                                 /\ dispatch(Rec, e).currentSession = currentSession
                           THEN e ELSE NoSignal)
                        EXCEPT !.raised = hasListener(Rec, e)
                                             /\ listenerThrows(Rec, e)]
        /\ UNCHANGED <<recOptions, clock, outsideRecorder>>

\* a throttle timeout comes due: delete throttleTimers[eventType]
ThrottleFire ==
    \E t \in throttleTimers :
        /\ t.due <= clock
        /\ throttleTimers' = throttleTimers \ {t}
        /\ win' = [win EXCEPT ![t.key] = [eligible |-> FALSE, emitted |-> 0]]
        /\ recOp' = RecOp("throttleTimer", NoSignal)
        /\ UNCHANGED <<recOptions, clock, isRecording, currentSession, listeners,
                       eventHandlers, saveIntervalId, sessionTimeout, pageTimers,
                       unloadHandler, outsideRecorder>>

\* time passes; a timeout fires when it is due
Tick ==
    /\ clock < MaxClock
    /\ \A t \in throttleTimers : t.due > clock
    /\ clock' = clock + 1
    /\ recOp' = RecOp("tick", NoSignal)
    /\ UNCHANGED <<recOptions, isRecording, currentSession, listeners,
                   eventHandlers, saveIntervalId, sessionTimeout, pageTimers,
                   throttleTimers, unloadHandler, win, outsideRecorder>>

NextRecorder ==
    \/ StartRecording
    \/ StopRecording
    \/ MaxDuration
    \/ BeforeUnload
    \/ Signal
    \/ ThrottleFire
    \/ Tick

SpecRecorder == InitRecorder /\ [][NextRecorder]_vars

\* new SessionRecorder({captureHtml: true, autoStart: false, ...})
InitCapture ==
    /\ ReplayIdle
    /\ ContentIdle
    /\ StorageIdle
    /\ SnapshotIdle
    /\ SandboxIdle
    /\ CaptureIdle
    /\ TimelineIdle
    /\ AllowListIdle
    /\ ResolveIdle
    /\ recOptions \in [captureMouseMove : BOOLEAN,
                       throttleMouseMove : MoveThrottlesMs,
                       excludeElements : {Selectors}]
    /\ clock = 0
    /\ IsRec(NewRecorder)
    /\ win = NoWindow
    /\ recOp = RecOp("new", NoSignal)

NextCapture ==
    \/ StartRecordingCapture
    \/ CaptureResolves
    \/ StopRecording
    \/ MaxDuration
    \/ BeforeUnload

SpecCapture == InitCapture /\ [][NextCapture]_vars

\* ------------------------------------------------------- storage actions

InitStorage ==
    /\ ReplayIdle
    /\ ContentIdle
    /\ RecorderIdle
    /\ StorageIdle
    /\ SnapshotIdle
    /\ SandboxIdle
    /\ ExtraIdle

\* A call of the adapter runs up to its await: getAllSessions() has read the
\* item, and the rest of the call is queued behind the calls made before it.
Call(op, arg) ==
    /\ Len(pending) < MaxPending
    /\ pending' = Append(pending, [op |-> op, arg |-> arg,
                                   sessions |-> getAllSessions(storageItem)])
    /\ UNCHANGED <<storageItem, storeOp, outsideStorage>>

SaveSession == \E s \in StoredSessions : Call("saveSession", s)

GetSession == \E id \in StoredIds : Call("getSession", [id |-> id])

DeleteSession == \E id \in StoredIds : Call("deleteSession", [id |-> id])

\* The continuation of the oldest call runs.  Whether setItem throws is the
\* browser's choice (quota, storage disabled).
Settle ==
    /\ pending # <<>>
    /\ \E throws \in BOOLEAN :
         LET call == Head(pending)
             r == CASE call.op = "saveSession" ->
                           saveSession(storageItem, call.sessions, call.arg,
                                       throws)
                    [] call.op = "deleteSession" ->
                           deleteSession(storageItem, call.sessions,
                                         call.arg.id, throws)
                    [] OTHER ->
                           getSession(storageItem, call.sessions, call.arg.id)
         IN /\ call.op = "getSession" => ~throws
            /\ storageItem' = r.item
            /\ storeOp' = [op |-> call.op, id |-> call.arg.id,
                           outcome |-> r.outcome, result |-> r.result,
                           threw |-> throws,
                           held |-> IF call.op = "saveSession"
                                    THEN call.arg ELSE NoSession]
    /\ pending' = Tail(pending)
    /\ UNCHANGED outsideStorage

NextStorage ==
    \/ SaveSession
    \/ GetSession
    \/ DeleteSession
    \/ Settle

SpecStorage == InitStorage /\ [][NextStorage]_vars

\* -------------------------------------- a string that is no selector
\* new SessionRecorder(options) with an excludeElements array that holds a
\* string that is no selector
InitInvalidSelector ==
    /\ ReplayIdle
    /\ ContentIdle
    /\ StorageIdle
    /\ SnapshotIdle
    /\ SandboxIdle
    /\ ExtraIdle
    /\ recOptions \in [captureMouseMove : BOOLEAN,
                       throttleMouseMove : {TimeUnit},
                       excludeElements : {<<InvalidSelector>> \o Selectors,
                                          Selectors \o <<InvalidSelector>>}]
    /\ clock = 0
    /\ \E autoStart \in BOOLEAN :
          IsRec(IF autoStart THEN startRecording(NewRecorder) ELSE NewRecorder)
    /\ win = NoWindow
    /\ recOp = RecOp("new", NoSignal)

SpecInvalidSelector == InitInvalidSelector /\ [][NextRecorder]_vars

\* ------------------------------------------------------ snapshot actions
\* new HtmlCaptureHelper(options), options being the recorder's
InitSnapshot ==
    /\ ReplayIdle
    /\ ContentIdle
    /\ RecorderIdle
    /\ StorageIdle
    /\ SandboxIdle
    /\ ExtraIdle
    /\ snapOptions \in [scriptHandling : {"remove", "keep-safe", "keep-all"},
                        inlineScriptHandling : {"remove", "keep"},
                        allowedResourceDomains : {<<>>, <<SafeDomain>>},
                        inlineCss : BOOLEAN, inlineJs : BOOLEAN,
                        keepExternalResources : BOOLEAN,
                        optimizationLevel : {0, 1},
                        excludeElements : {<<InvalidSelector>> \o Selectors}]
    /\ htmlClone = NoClone
    /\ stage = "idle"
    /\ inflight = {}
    /\ fetched = NoFetches
    /\ settled = <<>>

\* mutant: the external resources are processed before the exclusion list
CapturePageHtml_FetchFirst ==
    /\ stage = "idle"
    /\ LET clone == processScripts([nodes |-> Page, meta |-> FALSE])
       IN /\ htmlClone' = removeExcludedElements(processStylesheets(clone))
          /\ inflight' = inlines(clone, "link", snapOptions.inlineCss)
    /\ stage' = "stylesheets"
    /\ UNCHANGED <<snapOptions, fetched, settled, outsideSnapshot>>

\* capturePageHtml() up to the await in processStylesheets
CapturePageHtml ==
    /\ stage = "idle"
    /\ LET clone == removeExcludedElements(
                        processScripts([nodes |-> Page, meta |-> FALSE]))
       IN /\ htmlClone' = processStylesheets(clone)
          /\ inflight' = inlines(clone, "link", snapOptions.inlineCss)
    /\ stage' = "stylesheets"
    /\ UNCHANGED <<snapOptions, fetched, settled, outsideSnapshot>>

\* a fetch settles, and inlineStylesheet / inlineScript goes on
FetchSettles ==
    \E i \in inflight, ok \in BOOLEAN :
        /\ htmlClone' = replacePlaceholderWithContent(
                            htmlClone, i,
                            fetchResource(htmlClone.nodes[i].text.of, ok))
        /\ inflight' = inflight \ {i}
        /\ fetched' = [fetched EXCEPT ![i] = IF ok THEN "ok" ELSE "failed"]
        /\ settled' = Append(settled, i)
        /\ UNCHANGED <<snapOptions, stage, outsideSnapshot>>

\* Promise.all of the stylesheets is done: ScriptProcessor.processScripts up
\* to its await
StylesheetsDone ==
    /\ stage = "stylesheets"
    /\ inflight = {}
    /\ htmlClone' = SP_processScripts(htmlClone)
    /\ inflight' = inlines(htmlClone, "script", snapOptions.inlineJs)
    /\ stage' = "scripts"
    /\ UNCHANGED <<snapOptions, fetched, settled, outsideSnapshot>>

\* mutant: the rest of capturePageHtml does not wait for the fetches
ScriptsDone_NoJoin ==
    /\ stage = "scripts"
    /\ htmlClone' = finish(htmlClone)
    /\ stage' = "done"
    /\ UNCHANGED <<snapOptions, inflight, fetched, settled, outsideSnapshot>>

\* Promise.all of the scripts is done: the rest of capturePageHtml, which
\* returns htmlClone.outerHTML
ScriptsDone ==
    /\ stage = "scripts"
    /\ inflight = {}
    /\ htmlClone' = finish(htmlClone)
    /\ stage' = "done"
    /\ UNCHANGED <<snapOptions, inflight, fetched, settled, outsideSnapshot>>

NextSnapshot ==
    \/ CapturePageHtml
    \/ FetchSettles
    \/ StylesheetsDone
    \/ ScriptsDone

SpecSnapshot == InitSnapshot /\ [][NextSnapshot]_vars

\* ------------------------------------------------------- sandbox actions
\* new SessionReplayer({targetIframe, ...}): the constructor registers the
\* load callback of setupIframeEnvironment
InitSandbox ==
    /\ ReplayIdle
    /\ ContentIdle
    /\ RecorderIdle
    /\ StorageIdle
    /\ SnapshotIdle
    /\ SandboxIdle
    /\ ExtraIdle

\* loadSession(session), the session having a viewport and page content:
\* prepareIframe adds the load listener and starts the load
SandboxLoadSession ==
    /\ LoadSessionReplay
    /\ iframeLoad' = "loading"
    /\ UNCHANGED <<simulatorDoc, outsideSandbox>>

\* IframeManager.getDocument(): iframe.contentDocument || document; the
\* contentDocument of a cross-origin frame is null
getDocument(accessible) == IF accessible THEN "sandbox" ELSE "host"

\* the iframe's load event: handleLoad runs the registered callbacks, and the
\* one of setupIframeEnvironment replaces this.eventSimulator
IframeLoaded ==
    /\ iframeLoad = "loading"
    /\ iframeLoad' = "loaded"
    /\ \E accessible \in BOOLEAN : simulatorDoc' = getDocument(accessible)
    /\ UNCHANGED <<replayVars, contentVars, recorderVars, storageVars,
                   snapshotVars, extraVars>>

\* the load fails: no load event comes, and nothing listens for an error
IframeLoadFails ==
    /\ iframeLoad = "loading"
    /\ iframeLoad' = "failed"
    /\ UNCHANGED <<simulatorDoc, replayVars, contentVars, recorderVars,
                   storageVars, snapshotVars, extraVars>>

NextSandbox ==
    \/ SandboxLoadSession
    \/ Play
    \/ Pause
    \/ Stop
    \/ TimerFire
    \/ IframeLoaded
    \/ IframeLoadFails

SpecSandbox == InitSandbox /\ [][NextSandbox]_vars

\* ------------------------------------------------- SessionPlayer timeline
\* the latest time of a session handed to the player
MaxSpan == 5

\* the width of the timeline bar in pixels; a click is at pixel x
BarWidth == 4

\* what loadSession reads of a session: whether it has startTime and
\* endTime, their times, the number of events and the times of the first
\* and the last
PlayerSessions ==
    {s \in [hasTimes : BOOLEAN, startTime : 0..MaxSpan, endTime : 0..MaxSpan,
            events : 0..2, first : 0..MaxSpan, last : 0..MaxSpan] :
        /\ s.startTime <= s.endTime
        /\ s.first <= s.last
        /\ s.events = 0 => s.first = 0 /\ s.last = 0
        /\ s.events = 1 => s.first = s.last
        /\ ~s.hasTimes => s.startTime = 0 /\ s.endTime = 0
        /\ s.hasTimes => s.first = s.startTime /\ s.last = s.endTime}

\* SessionPlayer.loadSession, the duration it computes
sessionDuration(s) ==
    IF s.hasTimes THEN s.startTime - s.endTime
    ELSE IF s.events > 1 THEN s.last - s.first
    ELSE 0

Max(a, b) == IF a >= b THEN a ELSE b
Min(a, b) == IF a <= b THEN a ELSE b

\* Math.max(0, Math.min(1, (e.clientX - rect.left) / rect.width)), in
\* 1/BarWidth
percentage(x) == Max(0, Min(BarWidth, x))

\* this.duration * percentage, in 1/BarWidth ms
seekTime(d, x) == d * percentage(x)

InitTimeline ==
    /\ ReplayIdle
    /\ ContentIdle
    /\ RecorderIdle
    /\ StorageIdle
    /\ SnapshotIdle
    /\ SandboxIdle
    /\ CaptureIdle
    /\ TimelineIdle
    /\ AllowListIdle
    /\ ResolveIdle

\* SessionPlayer.loadSession(session)
PlayerLoadSession ==
    \E s \in PlayerSessions :
        /\ playerSession' = s
        /\ duration' = sessionDuration(s)
        /\ P_currentTime' = 0
        /\ UNCHANGED outsideTimeline

\* a click or drag on the timeline at pixel x, which may lie off the bar
HandleTimelineSeek ==
    \E x \in (0 - 1)..(BarWidth + 1) :
        /\ playerSession # Null
        /\ P_currentTime' = seekTime(duration, x)
        /\ UNCHANGED <<playerSession, duration, outsideTimeline>>

NextTimeline ==
    \/ PlayerLoadSession
    \/ HandleTimelineSeek

SpecTimeline == InitTimeline /\ [][NextTimeline]_vars

\* ---------------------------------------------- sandbox attribute
\* the constructor of SessionReplayer: the options given override the
\* defaults, and the allowScripts shorthand adds the script capability
SR_constructor(o) ==
    IF o.allowScripts /\ o.iframeSandbox /\ AllowScripts \notin o.sandboxOptions
    THEN [o EXCEPT !.sandboxOptions = @ \cup {AllowScripts}]
    ELSE o

\* IframeManager.loadHtmlContent: the attribute is set or removed, then the
\* HTML is written
AL_loadHtmlContent(f, o) ==
    [f EXCEPT !.sandbox = IF o.iframeSandbox THEN Attr(o.sandboxOptions)
                          ELSE NoAttr]

\* IframeManager.prepareIframe with the content loadSession chose: HTML goes
\* through loadHtmlContent, a URL is assigned to src
AL_prepareIframe(f, o, contentHtml, originalUrl) ==
    IF contentHtml # "" THEN AL_loadHtmlContent(f, o)
    ELSE IF originalUrl # "" /\ f.src # originalUrl
         THEN [f EXCEPT !.src = originalUrl]
         ELSE f

\* what prepareIframe loaded: HTML, a URL, or nothing
loadedKind(f, contentHtml, originalUrl) ==
    IF contentHtml # "" THEN "html"
    ELSE IF originalUrl # "" /\ f.src # originalUrl THEN "url"
    ELSE "none"

\* new SessionReplayer({targetIframe, iframeSandbox, sandboxOptions,
\* allowScripts})
InitAllowList ==
    /\ ReplayIdle
    /\ ContentIdle
    /\ RecorderIdle
    /\ StorageIdle
    /\ SnapshotIdle
    /\ SandboxIdle
    /\ CaptureIdle
    /\ TimelineIdle
    /\ ResolveIdle
    /\ \E o \in [iframeSandbox : BOOLEAN,
                 sandboxOptions : SUBSET {AllowScripts, AllowSameOrigin},
                 allowScripts : BOOLEAN] :
           sandboxConfig = SR_constructor(o)
    /\ frameAttrs = [src |-> "", sandbox |-> NoAttr]
    /\ contentLoad = NoContentLoad

\* loadSession of a session with recorded HTML
LoadHtml ==
    \E h \in RecordedHtmls :
        LET f == AL_prepareIframe(frameAttrs, sandboxConfig, h, "")
        IN /\ frameAttrs' = f
           /\ contentLoad' = [kind |-> loadedKind(frameAttrs, h, ""),
                              sandbox |-> f.sandbox]
           /\ UNCHANGED <<sandboxConfig, outsideAllowList>>

\* loadSession of a session with a recorded URL and no HTML
LoadUrl ==
    \E u \in RecordedUrls :
        LET f == AL_prepareIframe(frameAttrs, sandboxConfig, "", u)
        IN /\ frameAttrs' = f
           /\ contentLoad' = [kind |-> loadedKind(frameAttrs, "", u),
                              sandbox |-> f.sandbox]
           /\ UNCHANGED <<sandboxConfig, outsideAllowList>>

NextAllowList ==
    \/ LoadHtml
    \/ LoadUrl

SpecAllowList == InitAllowList /\ [][NextAllowList]_vars

\* ------------------------------------------------- element resolution
\* the document the events are replayed into, in document order: a button
\* with id and class, a span with the class, and a second button; none is
\* a submit button, an input or a link, so handleSpecialElements does
\* nothing.  `at` holds the x coordinates at which the element is topmost.
ReplayDoc ==
    <<[name |-> "e1", tag |-> "button", id |-> "go", classes |-> {"big"},
       path |-> "button#go", at |-> {1}],
      [name |-> "e2", tag |-> "span", id |-> "", classes |-> {"big"},
       path |-> "span.big", at |-> {2}],
      [name |-> "e3", tag |-> "button", id |-> "", classes |-> {},
       path |-> "button:nth-of-type(2)", at |-> {}]>>

\* an id that cannot follow # in a selector
InvalidId == "1x"

\* the fingerprints getElementInfo may have recorded, on a page that may
\* have differed from the document replayed into; "" is an absent field
TargetInfos ==
    [given : {TRUE}, tagName : {"button", "span", "p"},
     id : {"", "go", InvalidId}, className : {"", "big"},
     path : {"", InvalidSelector, "button#go", "button:nth-of-type(2)",
             "p.gone"}]

NoTargetInfo ==
    [given |-> FALSE, tagName |-> "", id |-> "", className |-> "", path |-> ""]

\* the x coordinates recorded; MaxX is over no element
MaxX == 3

ReplayedEvents ==
    [type : {"mousemove", "click"}, x : 1..MaxX,
     target : TargetInfos \cup {NoTargetInfo}]

\* how many events the scheduler replays
MaxReplayed == 2

Thrown == "SyntaxError"

\* the first element of the document, in document order, that satisfies test
first(test(_)) ==
    IF \E i \in DOMAIN ReplayDoc : test(ReplayDoc[i])
    THEN ReplayDoc[CHOOSE i \in DOMAIN ReplayDoc :
                      /\ test(ReplayDoc[i])
                      /\ \A j \in 1..(i - 1) : ~test(ReplayDoc[j])].name
    ELSE NoMatch

\* document.querySelector(path)
querySelectorPath(path) ==
    IF path = InvalidSelector THEN Thrown
    ELSE LET hit(el) == el.path = path IN first(hit)

\* tagName + "#" + id + "." + class ...
synthesized(t) ==
    [tag |-> t.tagName, id |-> t.id,
     classes |-> IF t.className = "" THEN {} ELSE {t.className}]

\* document.querySelector(selector) of the synthesized selector
querySelectorSynthesized(s) ==
    IF s.id = InvalidId THEN Thrown
    ELSE LET hit(el) == /\ el.tag = s.tag
                        /\ s.id = "" \/ el.id = s.id
                        /\ s.classes \subseteq el.classes
         IN first(hit)

\* document.elementFromPoint(x, y); null over no element
elementFromPoint(x) == LET hit(el) == x \in el.at IN first(hit)

\* what a try { querySelector } catch {} block leaves: the element, or
\* nothing
caught(result) == IF result = Thrown THEN NoMatch ELSE result

\* mutant: hit-testing comes before the synthesized selector
findElementAtCoordinates_PointFirst(x, t) ==
    LET byPath == IF t.given /\ t.path # ""
                  THEN caught(querySelectorPath(t.path)) ELSE NoMatch
        byPoint == elementFromPoint(x)
        bySelector == IF t.given
                      THEN caught(querySelectorSynthesized(synthesized(t)))
                      ELSE NoMatch
    IN [element |-> IF byPath # NoMatch THEN byPath
                    ELSE IF byPoint # NoMatch THEN byPoint
                    ELSE bySelector,
        raised |-> FALSE]

\* EventSimulator.findElementAtCoordinates(position, targetInfo)
findElementAtCoordinates(x, t) ==
    LET byPath == IF t.given /\ t.path # ""
                  THEN caught(querySelectorPath(t.path)) ELSE NoMatch
        bySelector == IF t.given
                      THEN caught(querySelectorSynthesized(synthesized(t)))
                      ELSE NoMatch
    IN [element |-> IF byPath # NoMatch THEN byPath
                    ELSE IF bySelector # NoMatch THEN bySelector
                    ELSE elementFromPoint(x),
        raised |-> FALSE]

Dispatched(type, el) == [type |-> type, to |-> el]

\* EventSimulator.simulateClickEvent: the events it dispatches
simulateClickEvent(el) ==
    IF el = NoMatch THEN <<>>
    ELSE <<Dispatched("mousedown", el), Dispatched("mouseup", el),
           Dispatched("click", el)>>

\* EventSimulator.clearHoverState, as simulateHoverEvent calls it
clearHoverState(hovered, el) ==
    IF hovered # NoMatch /\ (el = NoMatch \/ hovered # el)
    THEN <<Dispatched("mouseout", hovered)>>
    ELSE <<>>

\* EventSimulator.simulateHoverEvent: the events it dispatches and the
\* element it leaves as the hovered one
simulateHoverEvent(hovered, el) ==
    LET out == clearHoverState(hovered, el)
        left == IF out = <<>> THEN hovered ELSE NoMatch
    IN IF el = NoMatch THEN [sent |-> out, hovered |-> left]
       ELSE [sent |-> out \o <<Dispatched("mouseover", el),
                               Dispatched("mousemove", el)>>,
             hovered |-> el]

\* new SessionReplayer(): simulateRealEvents is on
InitResolve ==
    /\ ReplayIdle
    /\ ContentIdle
    /\ RecorderIdle
    /\ StorageIdle
    /\ SnapshotIdle
    /\ SandboxIdle
    /\ CaptureIdle
    /\ TimelineIdle
    /\ AllowListIdle
    /\ ResolveIdle

\* processNextEvent for a mouse-move: processEvent, then the next event is
\* scheduled unless an error came out of it
ProcessMouseMove ==
    \E e \in ReplayedEvents :
        /\ e.type = "mousemove"
        /\ replayed < MaxReplayed
        /\ LET f == findElementAtCoordinates(e.x, e.target)
               h == simulateHoverEvent(lastHoveredElement, f.element)
           IN /\ found' = f
              /\ sent' = IF f.raised THEN <<>> ELSE h.sent
              /\ lastHoveredElement' = IF f.raised THEN lastHoveredElement
                                        ELSE h.hovered
              /\ replayed' = IF f.raised THEN replayed ELSE replayed + 1
        /\ lastEvent' = e
        /\ UNCHANGED outsideResolve

\* processNextEvent for a click
ProcessMouseClick ==
    \E e \in ReplayedEvents :
        /\ e.type = "click"
        /\ replayed < MaxReplayed
        /\ LET f == findElementAtCoordinates(e.x, e.target)
           IN /\ found' = f
              /\ sent' = IF f.raised THEN <<>> ELSE simulateClickEvent(f.element)
              /\ replayed' = IF f.raised THEN replayed ELSE replayed + 1
        /\ lastEvent' = e
        /\ UNCHANGED <<lastHoveredElement, outsideResolve>>

NextResolve ==
    \/ ProcessMouseMove
    \/ ProcessMouseClick

SpecResolve == InitResolve /\ [][NextResolve]_vars

\* ------------------------------------------------------------- claims
\* timestamp (ms) of the event at 0-based index i, and its offset from the
\* session's start time
Ts(i) == session.events[i + 1]
Off(i) == Ts(i) - session.startTime

IsEvent(e) == e.kind = "event"
IsComplete(e) == e.kind = "complete"

\* the deliveries (onEvent + simulation) logged, in order
Deliveries == SelectSeq(log, IsEvent)

\* the completion callback was the last thing logged
Completed == log # <<>> /\ IsComplete(log[Len(log)])

\* C1: a non-looping playback of a loaded session with N events, started by
\* play() at cursor 0 and not interrupted by pause/stop/seek/load, delivers
\* the events 0, 1, 2, ... in order, one delivery each, and has performed
\* exactly N deliveries when it ends.
C1_FullPlayback ==
    (~loop /\ run.active /\ run.from = 0) =>
        /\ \A k \in 1..Len(Deliveries) : Deliveries[k].idx = k - 1
        /\ playing => Len(Deliveries) = currentIndex + 1
        /\ ~playing => Len(Deliveries) = NumEvents /\ Completed

C1_Witness ==
    /\ ~loop /\ run.active /\ run.from = 0 /\ run.prev.op = "loadSession"
    /\ ~playing /\ NumEvents = 3 /\ Len(Deliveries) = 3 /\ Completed

\* C2: in every reachable state at most one scheduled delivery is pending.
C2_AtMostOnePending == Cardinality(timers) <= 1

C2_Witness ==
    /\ lastOp.op = "seekTo" /\ lastOp.wasPlaying
    /\ playing /\ currentIndex > 0 /\ Cardinality(timers) = 1

\* C3: with looping enabled, a run of a non-empty session that is not
\* interrupted by pause/stop/seek/load stays in Playing: at the end of the
\* sequence it restarts from index 0 without a further play().
C3_LoopKeepsPlaying ==
    (loop /\ run.active /\ NumEvents > 0) => playing

\* C4: with looping disabled the completion callback is invoked at most once
\* per run and after the last delivery; once invoked the scheduler is not
\* playing and no delivery is pending; and a run that is not interrupted ends
\* only by completing, with the cursor past the last event.
C4_Completion ==
    ~loop =>
        /\ \A k \in 1..Len(log) : IsComplete(log[k]) => k = Len(log)
        /\ Completed => ~playing /\ timers = {}
        /\ (run.active /\ playing) => currentIndex < NumEvents
        /\ (run.active /\ ~playing) => Completed /\ currentIndex = NumEvents

C4_Witness ==
    /\ ~loop /\ run.active /\ lastOp.op = "timer"
    /\ Completed /\ Len(Deliveries) >= 2 /\ ~playing /\ timers = {}


AtOrBefore(t) == {i \in 0..(NumEvents - 1) : Off(i) <= t}

\* i is the highest event index whose offset is <= t
IsHighestAtOrBefore(i, t) == i \in AtOrBefore(t) /\ \A j \in AtOrBefore(t) : j <= i

\* that index, or 0 when no event has an offset <= t
Resolved(t) ==
    IF AtOrBefore(t) = {} THEN 0
    ELSE CHOOSE i \in AtOrBefore(t) : IsHighestAtOrBefore(i, t)

\* C7 as stated, for a seekTo made while not playing on a loaded session
\* that has events: seekTo(timeMs) sets the cursor to the highest event index
\* whose offset is <= timeMs.
C7_SeekHighest ==
    (lastOp.op = "seekTo" /\ NumEvents > 0 /\ ~lastOp.wasPlaying) =>
        IsHighestAtOrBefore(currentIndex, lastOp.arg)

\* C7 amended: seekTo(timeMs) on a loaded session resolves the cursor to the
\* highest event index whose offset is <= timeMs, or to 0 when no event has
\* such an offset.  Made while not playing it leaves the cursor there; made
\* while playing it delivers that event at once, and the cursor stays on it
\* unless it is the last event.
C7_SeekResolved ==
    (lastOp.op = "seekTo" /\ session # Null) =>
        LET r == Resolved(lastOp.arg) IN
        IF lastOp.wasPlaying
        THEN /\ Deliveries # <<>> /\ log[1] = Deliveries[1]
             /\ Deliveries[1].idx = r
             /\ r < NumEvents - 1 => currentIndex = r
        ELSE currentIndex = r

C7_Witness ==
    /\ lastOp.op = "seekTo" /\ session # Null /\ ~lastOp.wasPlaying
    /\ NumEvents >= 2 /\ AtOrBefore(lastOp.arg) = {} /\ currentIndex = 0

C9_SeekThenPlay ==
    (~loop /\ run.active /\ run.prev.op = "seekTo") =>
        LET r == Resolved(run.prev.arg) IN
        IF run.by = "play" /\ run.prev.wasPlaying
        THEN Deliveries = <<>> /\ Completed /\ r = NumEvents - 1
        ELSE /\ \A k \in 1..Len(Deliveries) : Deliveries[k].idx = r + k - 1
             /\ playing => Len(Deliveries) = currentIndex - r + 1
             /\ ~playing => Completed /\ Len(Deliveries) = NumEvents - r

C9_Witness ==
    /\ ~loop /\ run.active /\ run.by = "play"
    /\ run.prev.op = "seekTo" /\ ~run.prev.wasPlaying
    /\ Completed /\ NumEvents = 3 /\ Len(Deliveries) = 2
    /\ Deliveries[1].idx = 1

\* delivery times of the scenario at speed 2, in ms after play()
ScenarioTimes == <<0, 250, 750>>

\* C10: the time between two consecutive deliveries is (timestamp of the
\* later event - timestamp of the earlier one) / the speed in force when the
\* earlier one was delivered, whatever setSpeed calls came in between; a
\* pending delivery keeps the delay and due time computed then; and the
\* events at offsets 0, 500 and 1500 ms replayed at speed 2 are delivered 0,
\* 250 and 750 ms after play().
C10_Delays ==
    LET D == Deliveries IN
    /\ \A k \in 1..(Len(D) - 1) :
            (D[k + 1].at - D[k].at) * D[k].spd
                = (Ts(D[k + 1].idx) - Ts(D[k].idx)) * Scale
    /\ \A t \in timers :
            /\ D # <<>>
            /\ LET e == D[Len(D)] IN
               /\ t.delay * e.spd = (Ts(e.idx + 1) - Ts(e.idx)) * Scale
               /\ t.due = e.at + t.delay
    /\ (session = ScenarioSession /\ run.active /\ run.from = 0
            /\ \A k \in 1..Len(D) : D[k].spd = 2) =>
        \A k \in 1..Len(D) : D[k].at = ScenarioTimes[k] * Scale

C10_Witness ==
    /\ session = ScenarioSession /\ run.active /\ run.from = 0
    /\ Len(Deliveries) = 3
    /\ \A k \in 1..3 : Deliveries[k].spd = 2
    /\ Deliveries[3].at = 750 * Scale
    /\ speed = 1

\* C11: after loadSession, called in any state, the scheduler is not playing,
\* the cursor is 0, the loaded session is the one given and no delivery is
\* pending, so that no timeout scheduled before the load can deliver an event
\* after it.
C11_Load ==
    lastOp.op = "loadSession" =>
        /\ ~playing /\ currentIndex = 0 /\ session = artifact
        /\ timers = {} /\ nextTimer = NoTimer

C11_Witness ==
    /\ lastOp.op = "loadSession" /\ lastOp.wasPlaying
    /\ NumEvents = 3 /\ ~playing /\ currentIndex = 0 /\ timers = {}

\* the calls C13 lists as leaving the cursor where it is or advancing it
C13_Listed == {"play", "pause", "setSpeed", "timer"}

\* C13 as stated, for the steps it lists: a play(), pause(), setSpeed() or
\* timer firing (end-of-sequence handling included) never decreases the
\* cursor.
C13_CursorMonotonic ==
    [][lastOp'.op \in C13_Listed => currentIndex' >= currentIndex]_vars

\* C13 amended: a play(), pause(), setSpeed() or timer firing decreases the
\* cursor only when looping is enabled and the step delivers the last event:
\* the end-of-sequence handling then resets the cursor to 0.
C13_CursorMonotonicUnlessLoop ==
    [][lastOp'.op \in C13_Listed =>
        \/ currentIndex' >= currentIndex
        \/ /\ loop /\ currentIndex' = 0
           /\ Len(log') > 0 /\ IsEvent(log'[Len(log')])
           /\ log'[Len(log')].idx = NumEvents - 1
           /\ Len(log') > Len(log) \/ lastOp'.op = "play"]_vars

C13_Witness ==
    /\ loop /\ lastOp.op = "timer" /\ NumEvents = 3
    /\ currentIndex = 0 /\ Len(Deliveries) = 3

\* C14 (as stated; violated): the speed multiplier is > 0 in every reachable
\* state, whatever value was given as the speed option or to setSpeed.
C14_SpeedPositive == speed > 0

\* the content the priority order picks: override HTML, else override URL,
\* else the session's recorded HTML, else the session's recorded URL
C12_Pick ==
    IF lastLoad.html # "" THEN Html(lastLoad.html)
    ELSE IF lastLoad.url # "" THEN Url(lastLoad.url)
    ELSE IF lastLoad.pageHtml # "" THEN Html(lastLoad.pageHtml)
    ELSE Url(lastLoad.pageUrl)

\* C12 (as stated; violated): after a load with at least one of the four
\* inputs present, the iframe shows the content picked by the priority
\* order override HTML > override URL > recorded HTML > recorded URL.
C12_Priority ==
    (/\ lastLoad.done
     /\ <<lastLoad.html, lastLoad.url, lastLoad.pageHtml, lastLoad.pageUrl>>
            # <<"", "", "", "">>)
        => iframe.shown = C12_Pick


\* the event sequence of the recorder's session
RecEvents == IF currentSession = Null THEN <<>> ELSE currentSession.events

\* the element, or an ancestor of it, matches a configured exclusion selector
Excluded(el) ==
    \E i \in 1..Len(recOptions.excludeElements) :
        recOptions.excludeElements[i] \in (el.self \cup el.anc)

IsPasswordInput(el) == el.tag = "INPUT" /\ el.type = "password"

\* C15 (as stated; violated): in every throttle window of pointer-move,
\* scroll or resize in which a signal that is not excluded arrived while
\* recording, exactly one event of that kind is recorded.
C15_OnePerWindow ==
    \A k \in ThrottledKinds : win[k].eligible => win[k].emitted = 1

\* C16: no click, pointer-move, key-down, key-up, hover-in/out or form-submit
\* event in the session log has a target that matches a configured exclusion
\* selector or has an ancestor matching one.
C16_ExcludedNeverRecorded ==
    \A i \in 1..Len(RecEvents) :
        (\/ RecEvents[i].type \in {"mouseclick", "mousemove", "keydown", "keyup"}
         \/ RecEvents[i].name \in {"mouseover", "mouseout", "form_submit"})
            => ~Excluded(RecEvents[i].target)

\* a keydown on an element under .secret was handled while recording
C16_Witness ==
    /\ isRecording
    /\ recOp.op = "signal"
    /\ recOp.dropped = [kind |-> "keydown", target |-> SecretInput]
    /\ Len(RecEvents) = 1

\* C17: a keyboard event in the session log whose target is a password-type
\* input is a key-down with key "*" and keyCode 0; no key-up on such a target
\* is in the log.
C17_PasswordMasked ==
    \A i \in 1..Len(RecEvents) :
        (RecEvents[i].type \in {"keydown", "keyup"}
            /\ IsPasswordInput(RecEvents[i].target))
            => /\ RecEvents[i].type = "keydown"
               /\ RecEvents[i].key = "*"
               /\ RecEvents[i].keyCode = 0

\* a key-down on a password input was recorded and the key-up that followed
\* it was dropped
C17_Witness ==
    /\ isRecording
    /\ recOp.dropped = [kind |-> "keyup", target |-> PasswordInput]
    /\ Len(RecEvents) = 2
    /\ RecEvents[2].type = "keydown"
    /\ RecEvents[2].target = PasswordInput

\* C18: startRecording while a recording is in progress changes nothing of
\* the recorder (session, event sequence, timers, listeners), and at no time
\* is more than one set of listeners, save interval or max-duration timeout
\* installed.
C18_SingleSession ==
    [][/\ (recOp'.op = "startRecording" /\ isRecording)
            => UNCHANGED <<isRecording, currentSession, listeners, eventHandlers,
                           saveIntervalId, sessionTimeout, pageTimers,
                           throttleTimers>>
       /\ listeners' <= 1
       /\ \A t, u \in pageTimers' : t.timer = u.timer => t = u]_vars

\* startRecording was called on a recording whose session already held an
\* event besides the initial navigation
C18_Witness ==
    /\ recOp.op = "startRecording"
    /\ isRecording
    /\ Len(RecEvents) = 2
    /\ listeners = 1
    /\ Cardinality(pageTimers) = 2

\* C19: a signal that arrives while no session is open leaves the recorder's
\* session as it is; while recording stays active the session keeps its
\* identity and its event sequence only grows by appending.
C19_NoOpWhenClosed ==
    [][/\ (recOp'.op = "signal" /\ ~isRecording)
            => (currentSession' = currentSession /\ ~isRecording')
       /\ (isRecording /\ isRecording')
            => /\ currentSession'.id = currentSession.id
               /\ \/ currentSession'.events = currentSession.events
                  \/ /\ Len(currentSession'.events) = Len(currentSession.events) + 1
                     /\ SubSeq(currentSession'.events, 1, Len(currentSession.events))
                            = currentSession.events]_vars

\* a signal arrived after stopRecording, with a recorded session in memory
C19_Witness ==
    /\ recOp.op = "signal"
    /\ ~isRecording
    /\ Len(RecEvents) = 2

\* C20 (as stated; violated): consecutive events of the session have
\* strictly increasing timestamps.
C20_StrictOrder ==
    \A i \in 1..(Len(RecEvents) - 1) :
        RecEvents[i].timestamp < RecEvents[i + 1].timestamp

\* C29 (as stated; violated): in a non-looping playback, a play() that
\* resumes after a pause() does not deliver again the event that was already
\* delivered before the pause: every delivery of the resumed run is of an
\* event after it.
C29_ResumeNoRedelivery ==
    [][(/\ lastOp.op = "pause" /\ lastOp'.op = "play"
        /\ ~loop /\ session # Null
        /\ Len(log) > 0 /\ IsEvent(log[Len(log)])
        /\ log[Len(log)].idx = currentIndex)
          => \A i \in 1..Len(log') :
                IsEvent(log'[i]) => log'[i].idx > currentIndex]_vars

\* C28 (as stated; violated): with skipInactivity enabled, no scheduled delay
\* exceeds maxInactivityDelay milliseconds.
C28_DelayCapped ==
    skipInactivity => \A t \in timers : t.delay <= MaxInactivityDelay * Scale

\* C30 (as stated; violated): whenever the scheduler is not playing, no
\* delivery is pending, also when pause() or stop() is called from inside
\* the onEvent callback.
C30_QuietWhenNotPlaying == ~playing => timers = {}

\* ---- storage round trip and failure

Kinds(s) == [i \in 1..Len(s.events) |-> s.events[i].type]

\* the time of each event after the first, relative to the event before it
Deltas(s) ==
    [i \in 1..(Len(s.events) - 1) |->
        s.events[i + 1].timestamp - s.events[i].timestamp]

\* C21: a session read back by getSession has as many events as the session
\* object it was saved from, the same kinds in the same order, and the same
\* time between each event and the one before it.
C21_RoundTrip ==
    (storeOp.op = "getSession" /\ storeOp.result # NoSession)
        => LET read == storeOp.result
               saved == Original(read.src)
           IN /\ Len(read.events) = Len(saved.events)
              /\ Kinds(read) = Kinds(saved)
              /\ Deltas(read) = Deltas(saved)

\* a session of three events, with times that are no whole seconds, is read
\* back
C21_Witness ==
    /\ storeOp.op = "getSession"
    /\ storeOp.result # NoSession
    /\ storeOp.result.src = "a2"

\* C22: when the write of a saveSession throws, the call is rejected, the
\* session object the caller holds is as it was handed in, and the stored
\* item is what it was before the call settled.
C22_WriteFailure ==
    [][(/\ pending # <<>>
        /\ storeOp'.op = "saveSession"
        /\ storeOp'.threw
        /\ pending' = Tail(pending))
          => /\ storeOp'.outcome = "rejected"
             /\ storeOp'.held = Head(pending).arg
             /\ storageItem' = storageItem]_vars

\* a save whose write threw while a session was stored
C22_Witness ==
    /\ storeOp.op = "saveSession"
    /\ storeOp.threw
    /\ storageItem.present
    /\ Len(storageItem.text) > 0

\* ---- exclusion list with a string that is no selector

\* the signals whose listener records unless the target is excluded
AlwaysRecorded == {"click", "keydown", "submit", "mouseover", "mouseout"}

\* C23 (as stated; violated): with a string that is no selector in the
\* exclusion list, no listener raises an error, and a click, key-down,
\* form-submit or hover signal is dropped only if its target is excluded by
\* a selector of the list.
C23_InvalidSelectorIgnored ==
    recOp.op = "signal"
        => /\ ~recOp.raised
           /\ (recOp.dropped # NoSignal /\ recOp.dropped.kind \in AlwaysRecorded)
                 => Excluded(recOp.dropped.target)

\* ---- page snapshot

\* what removeUnusedCss leaves of a style element's text
Unoptimized(text) == IF text.note = "Optimized CSS" THEN text.body ELSE text

\* C24: a finished capture holds, for every fetch that failed, the element
\* with a comment that names the failure, and for every fetch that
\* succeeded, the element with the fetched content inlined.
C24_FailedFetchIsComment ==
    stage = "done"
        => \A i \in DOMAIN Page :
              fetched[i] # "none"
                 => LET node == htmlClone.nodes[i]
                        text == Unoptimized(node.text)
                    IN /\ node.present
                       /\ text.note = "Inlined from"
                       /\ text.of = Page[i].url
                       /\ text.body = IF fetched[i] = "ok"
                                      THEN ResponseText(Page[i].url)
                                      ELSE ErrorComment(Page[i].url)

\* a finished capture in which a stylesheet fetch failed, a script fetch
\* failed and another fetch succeeded
C24_Witness ==
    /\ stage = "done"
    /\ \E i, j, k \in DOMAIN Page :
          /\ Page[i].tag = "link" /\ fetched[i] = "failed"
          /\ Page[j].tag = "script" /\ fetched[j] = "failed"
          /\ fetched[k] = "ok"

\* C25 (as stated; violated): under keep-safe, every script element with a
\* src that a finished capture holds has a host on the allow-list.
C25_KeepSafeHosts ==
    (stage = "done" /\ snapOptions.scriptHandling = "keep-safe")
        => \A i \in DOMAIN Page :
              LET node == htmlClone.nodes[i]
              IN (node.tag = "script" /\ node.present /\ node.url # NoUrl)
                    => \E k \in 1..Len(snapOptions.allowedResourceDomains) :
                          node.url.host = snapOptions.allowedResourceDomains[k]

\* ---- sandbox

\* C26 (as stated; violated): every simulated event is dispatched into the
\* sandbox document, never into the host page's.
C26_OnlySandbox ==
    [][(Len(log') > Len(log) /\ IsEvent(log'[Len(log')]))
          => simulatorDoc = "sandbox"]_vars

\* C27 (as stated; violated): when the load of the sandbox fails, the
\* scheduler is not playing and no delivery is pending.
C27_LoadFailurePauses ==
    [][(iframeLoad # "failed" /\ iframeLoad' = "failed")
          => (~playing' /\ timers' = {})]_vars

\* ---- exclusion and the throttle gate

\* C31 (as stated; violated): a pointer-move signal that is dropped and
\* whose target is excluded leaves the throttle timers as they were, so it
\* opens no throttle window.
C31_ExcludedOpensNoWindow ==
    [][(/\ recOp'.op = "signal"
        /\ recOp'.dropped # NoSignal
        /\ recOp'.dropped.kind = "mousemove"
        /\ Excluded(recOp'.dropped.target))
          => throttleTimers' = throttleTimers]_vars

\* ---- teardown

\* the steps that run stopRecording()
StopOps == {"stopRecording", "maxDuration", "beforeunload"}

\* C37: after a step that runs stopRecording(), no interval, timeout or
\* throttle timer of the recorder is pending and no document listener or
\* unload handler is installed; the step issues one save if a recording was
\* in progress, and otherwise issues none and changes nothing.
C37_SingleTeardown ==
    [][recOp'.op \in StopOps
          => /\ ~isRecording'
             /\ saveIntervalId' = NoTimer
             /\ sessionTimeout' = NoTimer
             /\ pageTimers' = {}
             /\ throttleTimers' = {}
             /\ listeners' = 0
             /\ ~eventHandlers'
             /\ ~unloadHandler'
             /\ recOp'.saves = IF isRecording THEN 1 ELSE 0
             /\ ~isRecording => /\ currentSession' = currentSession
                                /\ pageTimers' = pageTimers
                                /\ listeners' = listeners]_vars

\* a stopRecording() after the recording was stopped
C37_Witness ==
    /\ recOp.op = "stopRecording"
    /\ recOp.saves = 0
    /\ currentSession # Null

\* ---- page capture of the recorder

\* C33 (as stated; violated): every snapshot is written into the session its
\* capture was started for, and a session is written at most once.
C33_SnapshotOfOwnSession ==
    /\ \A a \in attached : a.to = a.of
    /\ \A a, b \in attached : a.to = b.to => a = b

\* ---- overlapping storage calls

\* C32 (as stated; violated): a save that resolves leaves every other stored
\* session in storage, as it was.
C32_SaveKeepsOthers ==
    [][(/\ pending # <<>>
        /\ pending' = Tail(pending)
        /\ storeOp'.op = "saveSession"
        /\ storeOp'.outcome = "resolved"
        /\ storageItem.present)
          => \A i \in 1..Len(storageItem.text) :
                storageItem.text[i].id # storeOp'.id
                   => \E j \in 1..Len(storageItem'.text) :
                         storageItem'.text[j] = storageItem.text[i]]_vars

\* ---- timeline of the player

\* C39 (as stated; violated): for a loaded session whose endTime is not
\* before its startTime the duration is not negative, and neither is the
\* time a timeline seek asks for.
C39_DurationNotNegative ==
    (playerSession # Null /\ playerSession.hasTimes)
        => (duration >= 0 /\ P_currentTime >= 0)

\* ---- content of an empty load

\* C38 (as stated; violated): after SessionPlayer.loadSession of a session
\* without recorded HTML or URL and without overrides, the iframe shows
\* nothing of an earlier load.
C38_EmptyLoadShowsNothing ==
    (/\ viaPlayer
     /\ lastLoad.done
     /\ <<lastLoad.html, lastLoad.url, lastLoad.pageHtml, lastLoad.pageUrl>>
            = <<"", "", "", "">>)
        => iframe.shown = Nothing

\* ---- capability allow-list
\* C34: with sandboxing enabled, whatever content was loaded into the iframe,
\* HTML or a URL, was loaded with the sandbox attribute set to the
\* configured allow-list, and without allowScripts that list has no script
\* capability.
C34_AllowListBeforeContent ==
    (sandboxConfig.iframeSandbox /\ contentLoad.kind # "none")
        => /\ contentLoad.sandbox = Attr(sandboxConfig.sandboxOptions)
           /\ ~sandboxConfig.allowScripts
                  => AllowScripts \notin contentLoad.sandbox.tokens

\* ---- the join of the snapshot's fetches
\* the element a link / script element is replaced by
inlineTag(tag) == IF tag = "link" THEN "style" ELSE "script"

\* the nodes for which a fetch was started: those in flight and those
\* settled
Issued == inflight \cup {i \in DOMAIN Page : fetched[i] # "none"}

\* C35: a finished capture has no fetch in flight; at the place of every
\* link / script element whose fetch was started stands the style / script
\* element inlined from that element's URL, whatever the order the fetches
\* settled in; and no element holds the text of a placeholder.
C35_JoinedInOrder ==
    stage = "done"
        => /\ inflight = {}
           /\ \A i \in DOMAIN Page :
                 LET node == htmlClone.nodes[i]
                     text == Unoptimized(node.text)
                 IN /\ text.note # "Carregando"
                    /\ (text # NoText \/ fetched[i] # "none")
                          => /\ fetched[i] # "none"
                             /\ node.present
                             /\ node.tag = inlineTag(Page[i].tag)
                             /\ text.note = "Inlined from"
                             /\ text.of = Page[i].url

\* a finished capture whose two stylesheet fetches settled against the
\* document order, and whose script fetches settled too
C35_Witness ==
    /\ stage = "done"
    /\ Len(settled) >= 3
    /\ settled[1] = 2
    /\ settled[2] = 1
    /\ Page[settled[3]].tag = "script"

\* ---- the order of the snapshot's steps
\* the selectors of the exclusion list that are selectors
validSelectors ==
    {snapOptions.excludeElements[k] : k \in 1..Len(snapOptions.excludeElements)}
        \ {InvalidSelector}

\* the page after the script policy alone
afterPolicy == processScripts([nodes |-> Page, meta |-> FALSE])

\* C36: no fetch is started for a node inside an excluded element or for a
\* script the script policy removed, and a finished capture holds no node
\* that lies inside an excluded element.
C36_NoFetchForRemoved ==
    /\ \A i \in Issued :
          /\ Page[i].self \cap validSelectors = {}
          /\ afterPolicy.nodes[i].present
    /\ stage = "done"
          => \A i \in DOMAIN Page :
                Page[i].self \cap validSelectors # {}
                    => ~htmlClone.nodes[i].present

\* a finished capture of the page, whose excluded element holds a link and
\* a script, with a fetch made for another link and another script while
\* the script policy removed a script
C36_Witness ==
    /\ stage = "done"
    /\ \E i, j, k, l, m \in DOMAIN Page :
          /\ Page[i].tag = "link" /\ Page[i].self \cap validSelectors # {}
          /\ Page[j].tag = "script" /\ Page[j].self \cap validSelectors # {}
          /\ Page[k].tag = "link" /\ fetched[k] # "none"
          /\ Page[l].tag = "script" /\ fetched[l] # "none"
          /\ Page[m].tag = "script" /\ ~afterPolicy.nodes[m].present

\* ---- element resolution
\* what the lookups of a fingerprint find: nothing for an absent field, a
\* selector that throws, or one that matches no element
pathMatch(t) ==
    IF t.given /\ t.path # "" /\ querySelectorPath(t.path) # Thrown
    THEN querySelectorPath(t.path) ELSE NoMatch

selectorMatch(t) ==
    IF t.given /\ querySelectorSynthesized(synthesized(t)) # Thrown
    THEN querySelectorSynthesized(synthesized(t)) ELSE NoMatch

\* the element the stated order resolves an event to
inOrder(e) ==
    IF pathMatch(e.target) # NoMatch THEN pathMatch(e.target)
    ELSE IF selectorMatch(e.target) # NoMatch THEN selectorMatch(e.target)
    ELSE elementFromPoint(e.x)

\* C40 (as stated; violated): every replayed event resolves to the path
\* match, else to the match of the synthesized selector, else to the
\* element under the recorded point; when nothing resolves, no DOM event
\* is dispatched; no error is raised and the scheduler goes on to the next
\* event.
C40_ResolutionOrder ==
    [][/\ found'.element = inOrder(lastEvent')
       /\ found'.element = NoMatch => sent' = <<>>
       /\ ~found'.raised
       /\ replayed' = replayed + 1]_vars

\* C40 (amended): the same, except that a mouse-move that resolves to
\* nothing still dispatches mouseout to the element hovered before it;
\* nothing else is dispatched.
C40_ResolutionOrderHoverLeft ==
    [][/\ found'.element = inOrder(lastEvent')
       /\ found'.element = NoMatch
             => sent' = IF /\ lastEvent'.type = "mousemove"
                           /\ lastHoveredElement # NoMatch
                        THEN <<Dispatched("mouseout", lastHoveredElement)>>
                        ELSE <<>>
       /\ ~found'.raised
       /\ replayed' = replayed + 1]_vars

\* a second event whose path and synthesized selector both throw and whose
\* point is over no element, replayed after a mouse-move that hovered
C40_Witness ==
    /\ replayed = MaxReplayed
    /\ lastEvent.target.given
    /\ lastEvent.target.path = InvalidSelector
    /\ lastEvent.target.id = InvalidId
    /\ found = NotFound
    /\ sent # <<>>

====
